---- MODULE Spec2Model ----
(***************************************************************************)
(* Mano Basic Computer simulator (mano-rs): the two-pass assembler, the    *)
(* register file, the micro-stepped CPU and the Machine facade.            *)
(*                                                                         *)
(* Strings are sequences of one-character strings, so that trimming,       *)
(* searching, splitting, parsing and formatting are computed as the Rust   *)
(* code computes them.                                                     *)
(***************************************************************************)
EXTENDS Integers, Sequences, FiniteSets, TLC

(***************************************************************************)
(* Bounds of the model.                                                    *)
(***************************************************************************)
\* Machine::prime calls explored after construction.
MaxPrimes == 2
\* CPU ticks explored after each prime.
MaxTicks == 22

(***************************************************************************)
(* Program constants.                                                      *)
(***************************************************************************)
\* cpu.rs: memory: [u16; 4096]
MemSize == 4096
\* u16 values are 0 .. 2^16 - 1
U16 == 65536
(***************************************************************************)
(* Bit operations on naturals.                                             *)
(***************************************************************************)
RECURSIVE BitAnd(_, _)
BitAnd(a, b) ==
    IF a = 0 \/ b = 0 THEN 0
    ELSE (a % 2) * (b % 2) + 2 * BitAnd(a \div 2, b \div 2)

RECURSIVE BitOr(_, _)
BitOr(a, b) ==
    IF a = 0 THEN b
    ELSE IF b = 0 THEN a
    ELSE (IF (a % 2) + (b % 2) > 0 THEN 1 ELSE 0) + 2 * BitOr(a \div 2, b \div 2)

\* !v on a u16
BitNot16(v) == (U16 - 1) - v

(***************************************************************************)
(* Characters and strings (str / String).                                  *)
(***************************************************************************)
HexUpper == <<"0", "1", "2", "3", "4", "5", "6", "7", "8", "9",
              "A", "B", "C", "D", "E", "F">>
HexLower == <<"0", "1", "2", "3", "4", "5", "6", "7", "8", "9",
              "a", "b", "c", "d", "e", "f">>

\* char::is_whitespace, for the characters of the sources used here
IsSpace(c) == c \in {" ", "\t"}

\* char::to_digit(radix): the digit value, or -1 when c is no digit of the radix
ToDigit(c, radix) ==
    IF \E k \in 1..Len(HexUpper) : k <= radix /\ (HexUpper[k] = c \/ HexLower[k] = c)
    THEN (CHOOSE k \in 1..Len(HexUpper) : HexUpper[k] = c \/ HexLower[k] = c) - 1
    ELSE -1

\* str::find(char): 1-based index of the first occurrence, 0 when absent
FindChar(s, c) ==
    IF \E k \in 1..Len(s) : s[k] = c
    THEN CHOOSE k \in 1..Len(s) : s[k] = c /\ \A j \in 1..(k - 1) : s[j] # c
    ELSE 0

\* str::contains(&str)
Contains(s, pat) ==
    \E k \in 0..(Len(s) - Len(pat)) : SubSeq(s, k + 1, k + Len(pat)) = pat

\* str::trim
Trim(s) ==
    IF \A k \in 1..Len(s) : IsSpace(s[k]) THEN <<>>
    ELSE LET first == CHOOSE k \in 1..Len(s) :
                          ~IsSpace(s[k]) /\ \A j \in 1..(k - 1) : IsSpace(s[j])
             last == CHOOSE k \in 1..Len(s) :
                          ~IsSpace(s[k]) /\ \A j \in (k + 1)..Len(s) : IsSpace(s[j])
         IN SubSeq(s, first, last)

\* str::split_whitespace, collected
RECURSIVE SplitWhitespace(_)
SplitWhitespace(s) ==
    IF \A k \in 1..Len(s) : IsSpace(s[k]) THEN <<>>
    ELSE LET first == CHOOSE k \in 1..Len(s) :
                          ~IsSpace(s[k]) /\ \A j \in 1..(k - 1) : IsSpace(s[j])
             rest == SubSeq(s, first, Len(s))
             stop == IF \E k \in 1..Len(rest) : IsSpace(rest[k])
                     THEN CHOOSE k \in 1..Len(rest) :
                              IsSpace(rest[k]) /\ \A j \in 1..(k - 1) : ~IsSpace(rest[j])
                     ELSE Len(rest) + 1
         IN <<SubSeq(rest, 1, stop - 1)>> \o SplitWhitespace(SubSeq(rest, stop, Len(rest)))

(***************************************************************************)
(* Number parsing and formatting (core::num, core::fmt).                   *)
(* A parse result is a record [ok, val]; ok = FALSE is Err(_).  A u32 is   *)
(* kept as its two 16-bit halves [hi, lo], a u16 or i16 as an integer.     *)
(***************************************************************************)
RECURSIVE DigitsValue(_, _)
DigitsValue(s, radix) ==
    IF s = <<>> THEN 0
    ELSE DigitsValue(SubSeq(s, 1, Len(s) - 1), radix) * radix + ToDigit(s[Len(s)], radix)

RECURSIVE StripZeros(_)
StripZeros(s) == IF s # <<>> /\ s[1] = "0" THEN StripZeros(Tail(s)) ELSE s

\* digits <= limit for two digit strings of the same length
RECURSIVE DigitsLeq(_, _, _)
DigitsLeq(digits, limit, radix) ==
    IF digits = <<>> THEN TRUE
    ELSE IF ToDigit(digits[1], radix) < ToDigit(limit[1], radix) THEN TRUE
    ELSE IF ToDigit(digits[1], radix) > ToDigit(limit[1], radix) THEN FALSE
    ELSE DigitsLeq(Tail(digits), Tail(limit), radix)

\* digits without leading zeros is at most limit
SignificantLeq(sig, limit, radix) ==
    Len(sig) < Len(limit) \/ (Len(sig) = Len(limit) /\ DigitsLeq(sig, limit, radix))

\* The magnitude written by digits is at most the one written by limit
MagnitudeLeq(digits, limit, radix) == SignificantLeq(StripZeros(digits), limit, radix)

\* Every character is a digit of the radix, and there is at least one
WellFormed(digits, radix) ==
    digits # <<>> /\ \A k \in 1..Len(digits) : ToDigit(digits[k], radix) >= 0

\* from_str_radix after the sign: [neg, digits, ok]
ParseDigits(neg, digits, radix, limit) ==
    [neg |-> neg,
     digits |-> digits,
     ok |-> WellFormed(digits, radix) /\ MagnitudeLeq(digits, limit, radix)]

\* from_str_radix once the sign is known
ParseSigned(s, neg, radix, maxPos, maxNeg) ==
    ParseDigits(neg,
                IF Len(s) > 0 /\ (s[1] = "+" \/ neg) THEN SubSeq(s, 2, Len(s)) ELSE s,
                radix,
                IF neg THEN maxNeg ELSE maxPos)

\* from_str_radix: the sign and the digits of s, and whether s is a number of
\* the type whose largest value is maxPos and whose smallest value is -maxNeg
\* (maxNeg = <<>> for an unsigned type, which accepts '+' and rejects '-')
ParseParts(s, radix, maxPos, maxNeg) ==
    ParseSigned(s, Len(s) > 0 /\ s[1] = "-" /\ maxNeg # <<>>, radix, maxPos, maxNeg)

\* str::parse::<u32>(), of which the code uses only is_ok()
ParseU32(s) ==
    [ok |-> ParseParts(s, 10, <<"4", "2", "9", "4", "9", "6", "7", "2", "9", "5">>, <<>>).ok]

\* str::parse::<i32>(), of which the code uses only is_ok()
ParseI32(s) ==
    [ok |-> ParseParts(s, 10, <<"2", "1", "4", "7", "4", "8", "3", "6", "4", "7">>,
                              <<"2", "1", "4", "7", "4", "8", "3", "6", "4", "8">>).ok]

\* The value of parsed decimal parts
SignedValue(p) ==
    IF p.ok
    THEN [ok |-> TRUE,
          val |-> IF p.neg THEN 0 - DigitsValue(p.digits, 10) ELSE DigitsValue(p.digits, 10)]
    ELSE [ok |-> FALSE, val |-> 0]

\* str::parse::<i16>()
ParseI16(s) ==
    SignedValue(ParseParts(s, 10, <<"3", "2", "7", "6", "7">>, <<"3", "2", "7", "6", "8">>))

\* The value of parsed hexadecimal parts of at most 4 significant digits
HexValue(p) ==
    IF p.ok THEN [ok |-> TRUE, val |-> DigitsValue(StripZeros(p.digits), 16)]
    ELSE [ok |-> FALSE, val |-> 0]

\* u16::from_str_radix(s, 16)
ParseHexU16(s) == HexValue(ParseParts(s, 16, <<"F", "F", "F", "F">>, <<>>))

\* The two halves of at most 8 significant hexadecimal digits
HexHalves(sig) ==
    IF Len(sig) > 4
    THEN [hi |-> DigitsValue(SubSeq(sig, 1, Len(sig) - 4), 16),
          lo |-> DigitsValue(SubSeq(sig, Len(sig) - 3, Len(sig)), 16)]
    ELSE [hi |-> 0, lo |-> DigitsValue(sig, 16)]

\* The value of parsed hexadecimal parts of at most 8 significant digits
HexValue32(p) ==
    IF p.ok THEN [ok |-> TRUE, val |-> HexHalves(StripZeros(p.digits))]
    ELSE [ok |-> FALSE, val |-> [hi |-> 0, lo |-> 0]]

\* u32::from_str_radix(s, 16)
ParseHexU32(s) ==
    HexValue32(ParseParts(s, 16, <<"F", "F", "F", "F", "F", "F", "F", "F">>, <<>>))

\* A u32 from a small natural
ToU32(n) == [hi |-> n \div U16, lo |-> n % U16]

\* a + b on u32 for a small natural b: [val, overflow]
U32Add(a, b) ==
    LET lo == a.lo + b
        hi == a.hi + (lo \div U16)
    IN [val |-> [hi |-> hi % U16, lo |-> lo % U16], overflow |-> hi >= U16]

\* a - 1 on u32: [val, overflow]
U32Dec(a) ==
    IF a.lo > 0 THEN [val |-> [a EXCEPT !.lo = a.lo - 1], overflow |-> FALSE]
    ELSE IF a.hi > 0 THEN [val |-> [hi |-> a.hi - 1, lo |-> U16 - 1], overflow |-> FALSE]
    ELSE [val |-> [hi |-> U16 - 1, lo |-> U16 - 1], overflow |-> TRUE]

\* format!("{:X}", v)
RECURSIVE FormatHex(_)
FormatHex(v) ==
    IF v < 16 THEN <<HexUpper[v + 1]>>
    ELSE FormatHex(v \div 16) \o <<HexUpper[(v % 16) + 1]>>

\* format!("{:04X}", v)
RECURSIVE PadLeft(_, _)
PadLeft(s, width) == IF Len(s) >= width THEN s ELSE PadLeft(<<"0">> \o s, width)

FormatHex04(v) == PadLeft(FormatHex(v), 4)

\* `x as u16` of an i16
AsU16(v) == v % U16

(***************************************************************************)
(* Messages (message.rs): an ordered log of (level, text) entries.  An     *)
(* entry keeps the literal text of its format string and the values        *)
(* interpolated into it.                                                   *)
(***************************************************************************)
StrArg(s) == [str |-> s]
IntArg(n) == [int |-> n]
AddrArg(a) == [u32 |-> a]

Info(text, args) == [level |-> "Info", text |-> text, args |-> args]
Error(text, args) == [level |-> "Error", text |-> text, args |-> args]
Debug(text, args) == [level |-> "Debug", text |-> text, args |-> args]

\* Messages::has_errors
has_errors(entries) == \E k \in 1..Len(entries) : entries[k].level = "Error"

\* Messages::error_count
error_count(entries) == Cardinality({k \in 1..Len(entries) : entries[k].level = "Error"})

(***************************************************************************)
(* Assembler (assembler.rs).                                               *)
(***************************************************************************)
ORG == <<"O", "R", "G">>
HEX == <<"H", "E", "X">>
DEC == <<"D", "E", "C">>
END == <<"E", "N", "D">>

PSEUDO_INSTRUCTIONS == {ORG, HEX, DEC, END}

\* Option<&str>
None == <<>>
Some(x) == <<x>>

\* parse_line_fast: the result for a line without an instruction
empty_instruction == [instruction |-> <<>>, operand |-> None, indirect |-> FALSE]

\* parse_line_fast: the fields, from the whitespace-separated parts
parsed_parts(parts) ==
    [instruction |-> IF Len(parts) >= 1 THEN parts[1] ELSE <<>>,
     operand |-> IF Len(parts) >= 2 THEN Some(parts[2]) ELSE None,
     indirect |-> Len(parts) >= 3 /\ parts[3] = <<"i">>]

\* parse_line_fast: the line after its label, if any
after_label(line, comma_pos) ==
    IF comma_pos > 0 THEN Trim(SubSeq(line, comma_pos + 1, Len(line))) ELSE line

\* parse_line_fast: once the label is removed
parse_unlabelled(line) ==
    IF line = <<>> THEN empty_instruction ELSE parsed_parts(SplitWhitespace(line))

\* parse_line_fast: once the comment is removed
parse_uncommented(line) ==
    IF line = <<>> THEN empty_instruction
    ELSE parse_unlabelled(after_label(line, FindChar(line, ",")))

\* parse_line_fast: the line before its comment, if any
before_comment(line, comment_pos) ==
    IF comment_pos > 0 THEN Trim(SubSeq(line, 1, comment_pos - 1)) ELSE Trim(line)

\* parse_line_fast
parse_line_fast(line) == parse_uncommented(before_comment(line, FindChar(line, "/")))

\* ParsedInstruction::is_empty
is_empty(parsed) == parsed.instruction = <<>>

\* get_mri_table
mri_table ==
    (<<"A", "N", "D">> :> 0) @@ (<<"A", "D", "D">> :> 4096) @@ (<<"L", "D", "A">> :> 8192) @@
    (<<"S", "T", "A">> :> 12288) @@ (<<"B", "U", "N">> :> 16384) @@
    (<<"B", "S", "A">> :> 20480) @@ (<<"I", "S", "Z">> :> 24576)

\* get_rri_table
rri_table ==
    (<<"C", "L", "A">> :> 30720) @@ (<<"C", "L", "E">> :> 29696) @@ (<<"C", "M", "A">> :> 29184) @@
    (<<"C", "M", "E">> :> 28928) @@ (<<"C", "I", "R">> :> 28800) @@ (<<"C", "I", "L">> :> 28736) @@
    (<<"I", "N", "C">> :> 28704) @@ (<<"S", "P", "A">> :> 28688) @@ (<<"S", "N", "A">> :> 28680) @@
    (<<"S", "Z", "A">> :> 28676) @@ (<<"S", "Z", "E">> :> 28674) @@ (<<"H", "L", "T">> :> 28673)

\* get_io_table
io_table ==
    (<<"I", "N", "P">> :> 63488) @@ (<<"O", "U", "T">> :> 62464) @@ (<<"S", "K", "I">> :> 61952) @@
    (<<"S", "K", "O">> :> 61696) @@ (<<"I", "O", "N">> :> 61568) @@ (<<"I", "O", "F">> :> 61504)

\* usize::to_string().len() of a line index
DecimalLen(n) == IF n < 10 THEN 1 ELSE IF n < 100 THEN 2 ELSE 3

\* add_detailed_error(program, line_index, "", "", messages): the entries it appends
add_detailed_error(program, line_index) ==
    IF line_index >= 0
    THEN LET faulty_line == Trim(program[line_index + 1])
             padding == 4 + DecimalLen(line_index)
         IN << Error("Error at line {}: ", <<IntArg(line_index)>>),
               Error(" <{}> {}", <<IntArg(line_index), StrArg(faulty_line)>>),
               Error("{}{}", <<IntArg(padding), StrArg(<<"^">>)>>),
               Error("{}{}", <<IntArg(padding), StrArg(<<>>)>>) >>
    ELSE << Error("Error in program", <<>>) >>

(***************************************************************************)
(* State.                                                                  *)
(***************************************************************************)
VARIABLES
    reg,                    \* CPU.reg: the value of each Register
    memory,                 \* CPU.memory
    source_program,         \* Storage.source_program
    assembled_program,      \* Storage.assembled_program
    address_symbol_table,   \* Storage.address_symbol_table
    messages,               \* the entries the last facade call appended to its Messages
    step,                   \* the branch of the dispatch the last facade call took
    overflow_checks,        \* the build panics on integer overflow (debug) or wraps (release)
    panicked,               \* a panic has aborted the program
    primes,                 \* Machine::prime calls so far
    ticks                   \* CPU ticks since the last prime

vars == <<reg, memory, source_program, assembled_program, address_symbol_table,
          messages, step, overflow_checks, panicked, primes, ticks>>

\* A label address that ignores the line: every label at the origin
label_address_at_origin(origin, i) == [val |-> origin, overflow |-> FALSE]

(***************************************************************************)
(* Pass one: the symbol table.  The result is [table, messages, panic];    *)
(* panic is an arithmetic overflow in a build with overflow checks.        *)
(***************************************************************************)
\* i as u32 + origin - 1: [val, overflow]
label_address(origin, i) ==
    [val |-> U32Dec(U32Add(origin, i).val).val,
     overflow |-> U32Add(origin, i).overflow \/ U32Dec(U32Add(origin, i).val).overflow]

RECURSIVE pass_one_loop(_, _, _, _)

\* pass_one: a line that holds a label
pass_one_label(source, i, origin, st, label, address) ==
    IF label \in PSEUDO_INSTRUCTIONS
    THEN [st EXCEPT !.messages = @ \o
             <<Error("Cannot use invalid label \"{}\"", <<StrArg(label)>>)>> \o
             add_detailed_error(source, i)]
    ELSE IF label \in DOMAIN st.table
    THEN [st EXCEPT !.messages = @ \o
             <<Error("Label \"{}\" is already used", <<StrArg(label)>>)>> \o
             add_detailed_error(source, i)]
    ELSE IF address.overflow /\ overflow_checks
    THEN [st EXCEPT !.panic = TRUE]
    ELSE pass_one_loop(source, i + 1, origin,
             [st EXCEPT !.table = (label :> address.val) @@ @,
                        !.messages = Append(@,
                            Debug("Found label \"{}\" at program line {}, address {}",
                                  <<StrArg(label), IntArg(i + 1), AddrArg(address.val)>>))])

\* pass_one: the body of the loop, for a parsed line
pass_one_line(source, i, origin, st, line, parsed) ==
    IF is_empty(parsed) THEN pass_one_loop(source, i + 1, origin, st)
    ELSE IF parsed.instruction = END
    THEN [st EXCEPT !.messages = Append(@,
             Debug("Found END of symbolic program at program line {}", <<IntArg(i + 1)>>))]
    ELSE IF Contains(line, <<",">>)
    THEN pass_one_label(source, i, origin, st,
                        Trim(SubSeq(line, 1, FindChar(line, ",") - 1)),
                        label_address(origin, i))
    ELSE pass_one_loop(source, i + 1, origin, st)

\* pass_one: for (i, line) in storage.source_program.iter().enumerate()
pass_one_loop(source, i, origin, st) ==
    IF i >= Len(source) THEN st
    ELSE pass_one_line(source, i, origin, st, source[i + 1], parse_line_fast(source[i + 1]))

\* pass_one: the state the loop starts from
pass_one_start(origin, entry) ==
    [table |-> (ORG :> origin), messages |-> <<entry>>, panic |-> FALSE]

\* pass_one: an error that ends the pass
pass_one_error(text) ==
    [table |-> <<>>, messages |-> <<Error(text, <<>>)>>, panic |-> FALSE]

\* pass_one: the loop, from the origin of a valid ORG line
pass_one_from(source, origin) ==
    pass_one_loop(source, 0, origin,
                  pass_one_start(origin, Debug("ORG is at address {}", <<AddrArg(origin)>>)))

\* pass_one: a first line that contains "ORG"
pass_one_org(source, parsed) ==
    IF parsed.instruction = ORG
    THEN IF parsed.operand # None
         THEN IF ParseU32(parsed.operand[1]).ok
              THEN pass_one_from(source, ParseHexU32(parsed.operand[1]).val)
              ELSE pass_one_error("Invalid address for ORG instruction")
         ELSE pass_one_error("Missing address for ORG instruction")
    ELSE pass_one_error("Invalid syntax for ORG instruction")

\* pass_one
pass_one(source) ==
    IF source = <<>> THEN [table |-> <<>>, messages |-> <<>>, panic |-> FALSE]
    ELSE IF Contains(source[1], ORG)
    THEN pass_one_org(source, parse_line_fast(source[1]))
    ELSE pass_one_loop(source, 0, ToU32(0),
             pass_one_start(ToU32(0),
                            Debug("No ORG found on first line, setting to 0", <<>>)))

(***************************************************************************)
(* Pass two: the assembled listing.  The result is                         *)
(* [listing, messages, panic].                                             *)
(***************************************************************************)
\* while assembled_program.len() <= binary_location { push(String::new()) }:
\* the listing after the loop has pushed every missing entry
grow(listing, binary_location) ==
    IF Len(listing) <= binary_location
    THEN listing \o [k \in 1..(binary_location + 1 - Len(listing)) |-> <<>>]
    ELSE listing

\* assembled_program[binary_location] = binary_instruction, after growing
store_instruction(listing, binary_location, binary_instruction) ==
    [grow(listing, binary_location) EXCEPT ![binary_location + 1] = binary_instruction]

converted(parsed, i, binary_instruction, binary_location) ==
    Debug("Instruction \"{}\" at program line {} and converted to \"{}\" at binary program location {}",
          <<StrArg(parsed.instruction), IntArg(i), StrArg(binary_instruction),
            IntArg(binary_location)>>)

\* The value of a parse result, 0 when it failed (unwrap_or(0))
unwrap_or_zero(result) == IF result.ok THEN result.val ELSE 0

\* DEC n and HEX n
pseudo_word(parsed) ==
    IF parsed.instruction = DEC
    THEN FormatHex04(AsU16(unwrap_or_zero(ParseI16(parsed.operand[1]))))
    ELSE FormatHex04(unwrap_or_zero(ParseHexU16(parsed.operand[1])))

\* opcode + label_address as u16
mri_direct(opcode, address) == opcode + address.lo

\* mri_table[instruction] + label_address as u16, then += 0x8000 when indirect:
\* [val, overflow]
mri_word(opcode, address, indirect) ==
    [val |-> ((mri_direct(opcode, address) % U16) + (IF indirect THEN 32768 ELSE 0)) % U16,
     overflow |-> \/ mri_direct(opcode, address) >= U16
                  \/ (mri_direct(opcode, address) % U16) + (IF indirect THEN 32768 ELSE 0) >= U16]

RECURSIVE pass_two_loop(_, _, _, _, _)

\* pass_two: the end of the loop body for a line that gave a word
pass_two_store(source, table, i, binary_location, st, parsed, binary_instruction) ==
    pass_two_loop(source, table, i + 1, binary_location + 1,
        [st EXCEPT
            !.listing = store_instruction(@, binary_location, binary_instruction),
            !.messages = Append(@, converted(parsed, i, binary_instruction, binary_location))])

\* pass_two that stops at the first line it reports instead of continuing
pass_two_stop(source, table, i, binary_location, st, entry) ==
    [st EXCEPT !.messages = Append(@, entry)]

\* pass_two: the end of the loop body for a line that gave an error
pass_two_skip(source, table, i, binary_location, st, entry) ==
    pass_two_loop(source, table, i + 1, binary_location + 1,
                  [st EXCEPT !.messages = Append(@, entry)])

\* pass_two: a pseudo-instruction
pass_two_pseudo(source, table, i, binary_location, st, parsed) ==
    IF parsed.instruction = ORG
    THEN pass_two_loop(source, table, i + 1, binary_location, st)
    ELSE IF parsed.instruction = END THEN st
    ELSE IF parsed.operand # None
    THEN IF ParseI32(parsed.operand[1]).ok
         THEN pass_two_store(source, table, i, binary_location, st, parsed,
                             pseudo_word(parsed))
         ELSE pass_two_skip(source, table, i, binary_location, st,
                  Error("Invalid operand \"{}\" for instruction \"{}\"",
                        <<StrArg(parsed.operand[1]), StrArg(parsed.instruction)>>))
    ELSE pass_two_skip(source, table, i, binary_location, st,
                       Error("Missing operand", <<>>))

\* pass_two: the word of a memory-reference instruction
pass_two_mri_word(source, table, i, binary_location, st, parsed, word) ==
    IF word.overflow /\ overflow_checks
    THEN [st EXCEPT !.panic = TRUE]
    ELSE pass_two_store(source, table, i, binary_location, st, parsed, FormatHex(word.val))

\* pass_two: the label of a memory-reference instruction
pass_two_mri_label(source, table, i, binary_location, st, parsed, label) ==
    IF label \in DOMAIN table
    THEN pass_two_mri_word(source, table, i, binary_location, st, parsed,
             mri_word(mri_table[parsed.instruction], table[label], parsed.indirect))
    ELSE pass_two_mri_word(source, table, i, binary_location,
             [st EXCEPT !.messages = Append(@, Error("Unknown label \"{}\"",
                                                     <<StrArg(label)>>))],
             parsed,
             mri_word(mri_table[parsed.instruction], ToU32(0), parsed.indirect))

\* pass_two: a memory-reference instruction
pass_two_mri(source, table, i, binary_location, st, parsed) ==
    IF parsed.operand # None
    THEN pass_two_mri_label(source, table, i, binary_location, st, parsed, parsed.operand[1])
    ELSE pass_two_mri_label(source, table, i, binary_location,
             [st EXCEPT !.messages = Append(@,
                 Error("Missing operand for memory reference instruction", <<>>))],
             parsed, <<>>)

\* pass_two: the body of the loop, for a parsed line
pass_two_line(source, table, i, binary_location, st, parsed) ==
    IF is_empty(parsed) THEN pass_two_loop(source, table, i + 1, binary_location, st)
    ELSE IF parsed.instruction \in PSEUDO_INSTRUCTIONS
    THEN pass_two_pseudo(source, table, i, binary_location, st, parsed)
    ELSE IF parsed.instruction \in DOMAIN mri_table
    THEN pass_two_mri(source, table, i, binary_location, st, parsed)
    ELSE IF parsed.instruction \in DOMAIN rri_table
    THEN pass_two_store(source, table, i, binary_location, st, parsed,
                        FormatHex(rri_table[parsed.instruction]))
    ELSE IF parsed.instruction \in DOMAIN io_table
    THEN pass_two_store(source, table, i, binary_location, st, parsed,
                        FormatHex(io_table[parsed.instruction]))
    ELSE pass_two_skip(source, table, i, binary_location, st,
                       Error("Unknown instruction \"{}\"", <<StrArg(parsed.instruction)>>))

\* pass_two: for (i, line) in machine.source_program.iter().enumerate()
pass_two_loop(source, table, i, binary_location, st) ==
    IF i >= Len(source) THEN st
    ELSE pass_two_line(source, table, i, binary_location, st, parse_line_fast(source[i + 1]))

\* pass_two: the error count reported after the loop
pass_two_count(done, errors) ==
    IF done.panic \/ errors = 0 THEN done
    ELSE IF errors = 1
    THEN [done EXCEPT !.messages = Append(@, Info("Encountered 1 error", <<>>))]
    ELSE [done EXCEPT !.messages = Append(@, Info("Encountered {} errors", <<IntArg(errors)>>))]

\* pass_two: the counted result of the loop
pass_two_done(done) == pass_two_count(done, error_count(done.messages))

\* pass_two: the loop, from the binary start location
pass_two_from(source, table, binary_location, entries) ==
    pass_two_done(pass_two_loop(source, table, 0, binary_location,
        [listing |-> <<>>,
         messages |-> Append(entries, Debug("Set binary start location to {}",
                                            <<IntArg(binary_location)>>)),
         panic |-> FALSE]))

\* pass_two
pass_two(source, table) ==
    IF ORG \in DOMAIN table
    THEN pass_two_from(source, table, table[ORG].hi * U16 + table[ORG].lo, <<>>)
    ELSE pass_two_from(source, table, 0,
             <<Error("Address symbol table does not contain entry for ORG", <<>>)>>)

\* assemble: after pass two
assemble_two(one, after_one, two) ==
    [table |-> one.table, listing |-> two.listing, panic |-> two.panic,
     messages |-> IF two.panic \/ has_errors(after_one \o two.messages)
                  THEN after_one \o two.messages
                  ELSE Append(after_one \o two.messages,
                              Info("Assembly completed successfully", <<>>))]

\* assemble that runs pass two whatever pass one reported
assemble_one_runs_pass_two(source, listing, after_one, one) ==
    assemble_two(one, after_one, pass_two(source, one.table))

\* assemble: after pass one
assemble_one(source, listing, after_one, one) ==
    IF one.panic \/ has_errors(after_one)
    THEN [table |-> one.table, listing |-> listing, messages |-> after_one,
          panic |-> one.panic]
    ELSE assemble_two(one, after_one, pass_two(source, one.table))

\* assemble: the two passes
assemble_passes(source, listing, checked, one) ==
    assemble_one(source, listing, checked \o one.messages, one)

\* assemble: [table, listing, messages, panic], where incoming are the entries
\* already in the caller's Messages and listing is the listing before the call
assemble(source, listing, incoming) ==
    assemble_passes(source, listing,
                    IF source = <<>>
                    THEN Append(incoming, Error("No source program loaded", <<>>))
                    ELSE incoming,
                    pass_one(source))

(***************************************************************************)
(* Register (registers.rs): a value kept under a mask.  The operators take *)
(* the value and the mask and give the new value, with what the method     *)
(* returns.                                                                *)
(***************************************************************************)
\* Register::new: the mask of a register of the given number of bits
Register_new(bits) == IF bits >= 16 THEN 65535 ELSE 2^bits - 1

\* A set that stores the value without masking it to the width
Register_set_unmasked(mask, value) == value

\* Register::set
Register_set(mask, value) == BitAnd(value, mask)

\* Register::increment; self.value + 1 overflows u16 at 0xFFFF
Register_increment(value, mask) ==
    [value |-> Register_set(mask, (value + 1) % U16), overflow |-> value + 1 >= U16]

\* Register::logic_and
Register_logic_and(value, mask, operand) == Register_set(mask, BitAnd(value, operand))

\* An add whose carry is raised as soon as the sum reaches the mask
Register_add_carry_at_mask(value, mask, operand) ==
    [value |-> Register_set(mask, (value + operand) % U16),
     carry |-> IF value + operand >= mask THEN 1 ELSE 0]

\* Register::add
Register_add(value, mask, operand) ==
    LET sum == value + operand
    IN [value |-> Register_set(mask, sum % U16), carry |-> IF sum > mask THEN 1 ELSE 0]

\* Register::complement
Register_complement(value, mask) == Register_set(mask, BitNot16(value))

\* The top bit of a register
msb_mask(mask) == IF mask = 65535 THEN 32768 ELSE (mask + 1) \div 2

\* Register::shift_right
Register_shift_right(value, mask, msb) ==
    LET shifted == Register_set(mask, value \div 2)
    IN [value |-> IF msb # 0 THEN Register_set(mask, BitOr(shifted, msb_mask(mask)))
                  ELSE shifted,
        out |-> BitAnd(value, 1)]

\* A shift left that fills bit 0 with 0 whatever comes in
Register_shift_left_zero_fill(value, mask, lsb) ==
    [value |-> Register_set(mask, (value * 2) % U16),
     out |-> IF BitAnd(value, msb_mask(mask)) # 0 THEN 1 ELSE 0]

\* Register::shift_left
Register_shift_left(value, mask, lsb) ==
    [value |-> Register_set(mask, BitOr((value * 2) % U16, BitAnd(lsb, 1))),
     out |-> IF BitAnd(value, msb_mask(mask)) # 0 THEN 1 ELSE 0]

\* Registers::new: the width of each register
bits == [ar |-> 12, pc |-> 12, dr |-> 16, ac |-> 16, ir |-> 16, tr |-> 16,
         inpr |-> 8, outr |-> 8, sc |-> 3, e |-> 1, s |-> 1, r |-> 1,
         ien |-> 1, fgi |-> 1, fgo |-> 1]

mask == [n \in DOMAIN bits |-> Register_new(bits[n])]

Registers_new == [n \in DOMAIN bits |-> 0]

(***************************************************************************)
(* CPU (cpu.rs).  A CPU value c is [reg, memory, messages, step, panic]:   *)
(* the registers and memory, the Messages passed in, the dispatch branch   *)
(* that has acted ("none" so far) and whether an overflow has panicked.    *)
(***************************************************************************)
Set(c, n, value) == [c EXCEPT !.reg[n] = Register_set(mask[n], value)]
Clear(c, n) == [c EXCEPT !.reg[n] = 0]
Increment(c, n) ==
    LET inc == Register_increment(c.reg[n], mask[n])
    IN IF inc.overflow /\ overflow_checks THEN [c EXCEPT !.panic = TRUE]
       ELSE [c EXCEPT !.reg[n] = inc.value]
Say(c, level, text, args) ==
    [c EXCEPT !.messages = Append(@, [level |-> level, text |-> text, args |-> args])]
Acted(c, branch) == [c EXCEPT !.step = branch]

\* CPU::get_opcode
get_opcode(c) == BitAnd(c.reg.ir \div 4096, 7)

\* CPU::get_indirect_bit
get_indirect_bit(c) == BitAnd(c.reg.ir \div 32768, 1)

\* CPU::get_instruction_bit
get_instruction_bit(c) ==
    LET ones == {k \in 0..11 : (c.reg.ir \div 2^k) % 2 = 1}
    IN IF ones # {} THEN CHOOSE k \in ones : \A j \in ones : k <= j ELSE 0

\* CPU::read_from_memory
read_from_memory(c) == IF c.reg.ar < MemSize THEN c.memory[c.reg.ar] ELSE 0

\* A memory write addressed by PC instead of AR
write_to_memory_at_pc(c, value) ==
    IF c.reg.pc < MemSize THEN [c EXCEPT !.memory[c.reg.pc] = value] ELSE c

\* CPU::write_to_memory
write_to_memory(c, value) ==
    IF c.reg.ar < MemSize THEN [c EXCEPT !.memory[c.reg.ar] = value] ELSE c

\* An interrupt cycle that does not save the return address at RT1
CPU_interrupt_without_save(c, tick) ==
    IF tick = 0
    THEN LET said == Say(Acted(c, "interrupt"), "Debug", "INTERRUPT RT0 : AR <- 0, TR <- PC", <<>>)
         IN Increment(Set(Clear(said, "ar"), "tr", c.reg.pc), "sc")
    ELSE IF tick = 1
    THEN LET said == Say(Acted(c, "interrupt"), "Debug", "INTERRUPT RT1 : M[AR] <- TR, PC <- 0",
                         <<>>)
         IN Increment(Clear(said, "pc"), "sc")
    ELSE IF tick = 2
    THEN LET said == Say(Acted(c, "interrupt"), "Debug",
                         "INTERRUPT RT2 : PC <- PC + 1, IEN <- 0, R <- 0, SC <- 0", <<>>)
         IN Clear(Clear(Clear(Increment(said, "pc"), "ien"), "r"), "sc")
    ELSE c

\* CPU::interrupt
CPU_interrupt(c, tick) ==
    IF tick = 0
    THEN LET said == Say(Acted(c, "interrupt"), "Debug", "INTERRUPT RT0 : AR <- 0, TR <- PC", <<>>)
         IN Increment(Set(Clear(said, "ar"), "tr", c.reg.pc), "sc")
    ELSE IF tick = 1
    THEN LET said == Say(Acted(c, "interrupt"), "Debug", "INTERRUPT RT1 : M[AR] <- TR, PC <- 0",
                         <<>>)
         IN Increment(Clear(write_to_memory(said, c.reg.tr), "pc"), "sc")
    ELSE IF tick = 2
    THEN LET said == Say(Acted(c, "interrupt"), "Debug",
                         "INTERRUPT RT2 : PC <- PC + 1, IEN <- 0, R <- 0, SC <- 0", <<>>)
         IN Clear(Clear(Clear(Increment(said, "pc"), "ien"), "r"), "sc")
    ELSE c

\* A fetch that reads the instruction and leaves PC where it is
CPU_instruction_fetch_keeps_pc(c, tick) ==
    IF tick = 0
    THEN LET said == Say(Acted(c, "fetch"), "Debug", "FETCH R'T0 : AR <- PC", <<>>)
         IN Increment(Set(said, "ar", c.reg.pc), "sc")
    ELSE IF tick = 1
    THEN LET said == Say(Acted(c, "fetch"), "Debug", "FETCH R'T1 : IR <- M[AR], PC <- PC + 1",
                         <<>>)
         IN Increment(Set(said, "ir", read_from_memory(c)), "sc")
    ELSE c

\* CPU::instruction_fetch
CPU_instruction_fetch(c, tick) ==
    IF tick = 0
    THEN LET said == Say(Acted(c, "fetch"), "Debug", "FETCH R'T0 : AR <- PC", <<>>)
         IN Increment(Set(said, "ar", c.reg.pc), "sc")
    ELSE IF tick = 1
    THEN LET said == Say(Acted(c, "fetch"), "Debug", "FETCH R'T1 : IR <- M[AR], PC <- PC + 1",
                         <<>>)
         IN Increment(Increment(Set(said, "ir", read_from_memory(c)), "pc"), "sc")
    ELSE c

\* CPU::instruction_decode
CPU_instruction_decode(c) ==
    LET said == Say(Acted(c, "decode"), "Debug", "DECODE R'T2 : AR <- IR(0-11)", <<>>)
    IN Increment(Set(said, "ar", BitAnd(c.reg.ir, 4095)), "sc")

\* A fetch_operand that takes every address as direct
CPU_fetch_operand_direct(c, i_bit) == Increment(Acted(c, "indirect"), "sc")

\* CPU::fetch_operand
CPU_fetch_operand(c, i_bit) ==
    IF i_bit = 1
    THEN LET said == Say(Acted(c, "indirect"), "Debug", "INDIRECT D7'IT3 : AR <- M[AR]", <<>>)
         IN Increment(Set(said, "ar", read_from_memory(c)), "sc")
    ELSE Increment(Acted(c, "indirect"), "sc")

\* CPU::and
CPU_and(c, tick) ==
    IF tick = 4
    THEN LET said == Say(Acted(c, "mri"), "Debug", "AND D0T4 DR <- M[AR]", <<>>)
         IN Increment(Set(said, "dr", read_from_memory(c)), "sc")
    ELSE IF tick = 5
    THEN LET said == Say(Acted(c, "mri"), "Debug", "AND D0T5 : AC <- AC & DR, SC <- 0", <<>>)
         IN Clear([said EXCEPT !.reg.ac = Register_logic_and(c.reg.ac, mask.ac, c.reg.dr)], "sc")
    ELSE c

\* CPU::add
CPU_add(c, tick) ==
    IF tick = 4
    THEN LET said == Say(Acted(c, "mri"), "Debug", "ADD D1T4 : DR <- M[AR]", <<>>)
         IN Increment(Set(said, "dr", read_from_memory(c)), "sc")
    ELSE IF tick = 5
    THEN LET said == Say(Acted(c, "mri"), "Debug",
                         "ADD D1T5 : AC <- AC + DR, E <- Cout, SC <- 0", <<>>)
             sum == Register_add(c.reg.ac, mask.ac, c.reg.dr)
         IN Clear(Set([said EXCEPT !.reg.ac = sum.value], "e", sum.carry), "sc")
    ELSE c

\* CPU::lda
CPU_lda(c, tick) ==
    IF tick = 4
    THEN LET said == Say(Acted(c, "mri"), "Debug", "LDA D2T4 : DR <- M[AR]", <<>>)
         IN Increment(Set(said, "dr", read_from_memory(c)), "sc")
    ELSE IF tick = 5
    THEN LET said == Say(Acted(c, "mri"), "Debug", "LDA D2T5 : AC <- DR, SC <- 0", <<>>)
         IN Clear(Set(said, "ac", c.reg.dr), "sc")
    ELSE c

\* CPU::sta
CPU_sta(c) ==
    LET said == Say(Acted(c, "mri"), "Debug", "STA D3T4 : M[AR] <- AC, SC <- 0", <<>>)
    IN Clear(write_to_memory(said, c.reg.ac), "sc")

\* CPU::bun
CPU_bun(c) ==
    LET said == Say(Acted(c, "mri"), "Debug", "BUN D4T4 :PC <- AR, SC <- 0", <<>>)
    IN Clear(Set(said, "pc", c.reg.ar), "sc")

\* A bsa that branches without storing the return address
CPU_bsa_without_return(c, tick) ==
    IF tick = 4
    THEN LET said == Say(Acted(c, "mri"), "Debug", "BSA D5T4 : M[AR] <- PC, AR <- AR + 1", <<>>)
         IN Increment(Increment(said, "ar"), "sc")
    ELSE IF tick = 5
    THEN LET said == Say(Acted(c, "mri"), "Debug", "BSA D5T5 :PC <- AR, SC <- 0", <<>>)
         IN Clear(Set(said, "pc", c.reg.ar), "sc")
    ELSE c

\* CPU::bsa
CPU_bsa(c, tick) ==
    IF tick = 4
    THEN LET said == Say(Acted(c, "mri"), "Debug", "BSA D5T4 : M[AR] <- PC, AR <- AR + 1", <<>>)
         IN Increment(Increment(write_to_memory(said, c.reg.pc), "ar"), "sc")
    ELSE IF tick = 5
    THEN LET said == Say(Acted(c, "mri"), "Debug", "BSA D5T5 :PC <- AR, SC <- 0", <<>>)
         IN Clear(Set(said, "pc", c.reg.ar), "sc")
    ELSE c

\* CPU::isz
CPU_isz(c, tick) ==
    IF tick = 4
    THEN LET said == Say(Acted(c, "mri"), "Debug", "ISZ D6T4 : DR <- M[AR]", <<>>)
         IN Increment(Set(said, "dr", read_from_memory(c)), "sc")
    ELSE IF tick = 5
    THEN LET said == Say(Acted(c, "mri"), "Debug", "ISZ D6T5 : DR <- DR + 1", <<>>)
         IN Increment(Increment(said, "dr"), "sc")
    ELSE IF tick = 6
    THEN LET said == Say(Acted(c, "mri"), "Debug",
                         "ISZ D6T6 : M[AR] <- DR, if (DR = 0) then (PC <- PC + 1), SC <- 0", <<>>)
             written == write_to_memory(said, c.reg.dr)
         IN Clear(IF c.reg.dr = 0 THEN Increment(written, "pc") ELSE written, "sc")
    ELSE c

\* CPU::execute_mri
CPU_execute_mri(c, opcode, tick) ==
    CASE opcode = 0 -> CPU_and(c, tick)
      [] opcode = 1 -> CPU_add(c, tick)
      [] opcode = 2 -> CPU_lda(c, tick)
      [] opcode = 3 -> CPU_sta(c)
      [] opcode = 4 -> CPU_bun(c)
      [] opcode = 5 -> CPU_bsa(c, tick)
      [] opcode = 6 -> CPU_isz(c, tick)
      [] OTHER -> Say(Acted(c, "mri"), "Error", "Unknown MRI opcode: {}", <<IntArg(opcode)>>)

\* CPU::cla
CPU_cla(c) == Clear(Say(c, "Debug", "CLA D7I'T3rB11 : AC <- 0, SC <- 0", <<>>), "ac")

\* CPU::cle
CPU_cle(c) == Clear(Say(c, "Debug", "CLE D7I'T3rB10 : E <- 0, SC <- 0", <<>>), "e")

\* CPU::cma
CPU_cma(c) ==
    [Say(c, "Debug", "CMA D7I'T3rB9 : AC <- AC', SC <- 0", <<>>)
        EXCEPT !.reg.ac = Register_complement(c.reg.ac, mask.ac)]

\* CPU::cme
CPU_cme(c) ==
    [Say(c, "Debug", "CME D7I'T3rB8 : E <- E', SC <- 0", <<>>)
        EXCEPT !.reg.e = Register_complement(c.reg.e, mask.e)]

\* CPU::cir
CPU_cir(c) ==
    LET shifted == Register_shift_right(c.reg.ac, mask.ac, c.reg.e)
        said == Say(c, "Debug",
                    "CIR D7I'T3rB7 : AC <- shr AC, AC(15) <- E, E <- AC(0), SC <- 0", <<>>)
    IN Set([said EXCEPT !.reg.ac = shifted.value], "e", shifted.out)

\* CPU::cil
CPU_cil(c) ==
    LET shifted == Register_shift_left(c.reg.ac, mask.ac, c.reg.e)
        said == Say(c, "Debug",
                    "CIL D7I'T3rB6 : AC <- shl AC, AC(0) <- E, E <- AC(15), SC <- 0", <<>>)
    IN Set([said EXCEPT !.reg.ac = shifted.value], "e", shifted.out)

\* CPU::inc
CPU_inc(c) == Increment(Say(c, "Debug", "INC D7I'T3rB5 : AC <- AC + 1, SC <- 0", <<>>), "ac")

\* CPU::spa
CPU_spa(c) ==
    LET said == Say(c, "Debug",
                    "SPA D7I'T3rB4 : if (AC(15) = 0) then (PC <- PC + 1), SC <- 0", <<>>)
    IN IF BitAnd(c.reg.ac, 32768) = 0 THEN Increment(said, "pc") ELSE said

\* The inverted sna: it skips when AC(15) is 0, as spa does
CPU_sna_inverted(c) ==
    LET said == Say(c, "Debug",
                    "SNA D7I'T3rB3 : if (AC(15) = 1) then (PC <- PC + 1), SC <- 0", <<>>)
    IN IF BitAnd(c.reg.ac, 32768) = 0 THEN Increment(said, "pc") ELSE said

\* CPU::sna
CPU_sna(c) ==
    LET said == Say(c, "Debug",
                    "SNA D7I'T3rB3 : if (AC(15) = 1) then (PC <- PC + 1), SC <- 0", <<>>)
    IN IF BitAnd(c.reg.ac, 32768) # 0 THEN Increment(said, "pc") ELSE said

\* CPU::sza
CPU_sza(c) ==
    LET said == Say(c, "Debug", "SZA D7I'T3rB2 : if (AC = 0) then (PC <- PC + 1), SC <- 0", <<>>)
    IN IF c.reg.ac = 0 THEN Increment(said, "pc") ELSE said

\* CPU::sze
CPU_sze(c) ==
    LET said == Say(c, "Debug", "SZE D7I'T3rB1 : if (E = 0) then (PC <- PC + 1), SC <- 0", <<>>)
    IN IF c.reg.e = 0 THEN Increment(said, "pc") ELSE said

\* A hlt that reports the halt but leaves the start-stop flip-flop set
CPU_hlt_keeps_running(c) ==
    Say(Say(c, "Debug", "HLT D7I'T3rB0 : S <- 0, SC <- 0", <<>>), "Error", "Halting", <<>>)

\* A hlt that stops the machine without reporting it
CPU_hlt_silent(c) == Set(Say(c, "Debug", "HLT D7I'T3rB0 : S <- 0, SC <- 0", <<>>), "s", 0)

\* CPU::hlt
CPU_hlt(c) ==
    Set(Say(Say(c, "Debug", "HLT D7I'T3rB0 : S <- 0, SC <- 0", <<>>), "Error", "Halting", <<>>),
        "s", 0)

\* CPU::execute_rri
CPU_execute_rri(c, instruction) ==
    LET rri == Acted(c, "rri")
        done ==
            CASE instruction = 11 -> CPU_cla(rri)
              [] instruction = 10 -> CPU_cle(rri)
              [] instruction = 9 -> CPU_cma(rri)
              [] instruction = 8 -> CPU_cme(rri)
              [] instruction = 7 -> CPU_cir(rri)
              [] instruction = 6 -> CPU_cil(rri)
              [] instruction = 5 -> CPU_inc(rri)
              [] instruction = 4 -> CPU_spa(rri)
              [] instruction = 3 -> CPU_sna(rri)
              [] instruction = 2 -> CPU_sza(rri)
              [] instruction = 1 -> CPU_sze(rri)
              [] instruction = 0 -> CPU_hlt(rri)
              [] OTHER -> Say(rri, "Error", "Unknown RRI instruction: {}", <<IntArg(instruction)>>)
    IN Clear(done, "sc")

\* CPU::inp, CPU::out, CPU::ski, CPU::sko
CPU_inp(c) == Say(c, "Debug", "INP :", <<>>)
CPU_out(c) == Say(c, "Debug", "OUT :", <<>>)
CPU_ski(c) == Say(c, "Debug", "SKI :", <<>>)
CPU_sko(c) == Say(c, "Debug", "SKO :", <<>>)

\* CPU::ion
CPU_ion(c) == Set(Say(c, "Debug", "ION D7IT3pB7 : IEN <- 1, SC <- 0", <<>>), "ien", 1)

\* An iof that is recognized but inert
CPU_iof_inert(c) == Say(c, "Debug", "IOF D7IT3pB6 : IEN <- 0, SC <- 0", <<>>)

\* CPU::iof
CPU_iof(c) == Set(Say(c, "Debug", "IOF D7IT3pB6 : IEN <- 0, SC <- 0", <<>>), "ien", 0)

\* CPU::execute_io
CPU_execute_io(c, instruction) ==
    LET io == Acted(c, "io")
        done ==
            CASE instruction = 11 -> CPU_inp(io)
              [] instruction = 10 -> CPU_out(io)
              [] instruction = 9 -> CPU_ski(io)
              [] instruction = 8 -> CPU_sko(io)
              [] instruction = 7 -> CPU_ion(io)
              [] instruction = 6 -> CPU_iof(io)
              [] OTHER -> Say(io, "Error", "Unknown IO instruction: {}", <<IntArg(instruction)>>)
    IN Clear(done, "sc")

\* CPU::tick
CPU_tick(c) ==
    LET tick == c.reg.sc
        interrupt_raised == c.reg.r
        opcode == get_opcode(c)
        i_bit == get_indirect_bit(c)
    IN IF tick < 3 /\ interrupt_raised = 1 THEN CPU_interrupt(c, tick)
       ELSE IF tick < 2 /\ interrupt_raised = 0 THEN CPU_instruction_fetch(c, tick)
       ELSE IF tick = 2 /\ interrupt_raised = 0 THEN CPU_instruction_decode(c)
       ELSE IF tick = 3 /\ opcode # 7 THEN CPU_fetch_operand(c, i_bit)
       ELSE IF tick > 3 /\ opcode # 7 THEN CPU_execute_mri(c, opcode, tick)
       ELSE IF tick = 3 /\ opcode = 7
       THEN IF i_bit = 1 THEN CPU_execute_io(c, get_instruction_bit(c))
            ELSE CPU_execute_rri(c, get_instruction_bit(c))
       ELSE c

\* CPU::load_program_into_memory: the memory after the loop over the listing.
\* Each address is written at most once, by the entry at its own index.
load_program_into_memory(mem, listing) ==
    [address \in {a \in 0..(Len(listing) - 1) : a < MemSize /\ ParseHexU16(listing[a + 1]).ok} |->
        ParseHexU16(listing[address + 1]).val] @@ mem

\* CPU::load_program_into_memory: the Messages it returns, one Debug for each
\* entry written and one Error for each entry that is not a u16 in radix 16
load_program_messages(listing) ==
    LET said == [k \in 1..Len(listing) |->
                    IF ParseHexU16(listing[k]).ok
                    THEN IF k - 1 < MemSize
                         THEN Some(Debug("Loaded {} into memory[{}]",
                                         <<StrArg(listing[k]), IntArg(k - 1)>>))
                         ELSE None
                    ELSE Some(Error("Invalid instruction format: {}", <<StrArg(listing[k])>>))]
        kept == SelectSeq(said, LAMBDA o : o # None)
    IN [k \in 1..Len(kept) |-> kept[k][1]]

\* A reset that restarts one address further on each time
CPU_reset_registers_advancing(registers) ==
    [registers EXCEPT !.pc = Register_set(mask.pc, registers.pc + 1),
                      !.s = Register_set(mask.s, 1),
                      !.ir = Register_set(mask.ir, 1)]

\* A reset that raises the interrupt flip-flop
CPU_reset_registers_raising(registers) ==
    [registers EXCEPT !.pc = Register_set(mask.pc, 0),
                      !.s = Register_set(mask.s, 1),
                      !.ir = Register_set(mask.ir, 1),
                      !.r = Register_set(mask.r, 1)]

\* CPU::set_program_start and CPU::reset: the registers after them
CPU_reset_registers(registers) ==
    [registers EXCEPT !.pc = Register_set(mask.pc, 0),
                      !.s = Register_set(mask.s, 1),
                      !.ir = Register_set(mask.ir, 1)]

(***************************************************************************)
(* Source programs given to Machine::prime.                                *)
(***************************************************************************)
\* assembler_test.rs: BASIC_ADDITION_PROGRAM, comments shortened
BASIC_ADDITION_PROGRAM ==
    <<<<" ", " ", " ", "O", "R", "G", " ", "0", " ", " ", " ", " ", "/", "O", "r", "i", "g", "i", "n">>,
      <<" ", " ", " ", "L", "D", "A", " ", "A", " ", " ", " ", " ", "/", "L", "o", "a", "d", " ", "A">>,
      <<" ", " ", " ", "A", "D", "D", " ", "B", " ", " ", " ", " ", "/", "A", "d", "d", " ", "B">>,
      <<" ", " ", " ", "S", "T", "A", " ", "C", " ", " ", " ", " ", "/", "S", "t", "o", "r", "e", " ", "i", "n", " ", "C">>,
      <<" ", " ", " ", "H", "L", "T", " ", " ", " ", " ", " ", " ", "/", "H", "a", "l", "t">>,
      <<"A", ",", " ", "D", "E", "C", " ", "8", "3", " ", " ", " ", "/", "D", "e", "c", "i", "m", "a", "l">>,
      <<"B", ",", " ", "D", "E", "C", " ", "-", "2", "3", " ", " ", "/", "D", "e", "c", "i", "m", "a", "l">>,
      <<"C", ",", " ", "D", "E", "C", " ", "0", " ", " ", " ", " ", "/", "S", "u", "m">>,
      <<" ", " ", " ", "E", "N", "D", " ", " ", " ", " ", " ", " ", "/", "E", "n", "d">>>>

\* ORG 0 / HLT / END
HALT_PROGRAM ==
    <<<<"O", "R", "G", " ", "0">>,
      <<"H", "L", "T">>,
      <<"E", "N", "D">>>>

\* ORG 0 / LDA PTR i / HLT / PTR, HEX 0003 / VAL, HEX 00AB / END
INDIRECT_PROGRAM ==
    <<<<"O", "R", "G", " ", "0">>,
      <<"L", "D", "A", " ", "P", "T", "R", " ", "i">>,
      <<"H", "L", "T">>,
      <<"P", "T", "R", ",", " ", "H", "E", "X", " ", "0", "0", "0", "3">>,
      <<"V", "A", "L", ",", " ", "H", "E", "X", " ", "0", "0", "A", "B">>,
      <<"E", "N", "D">>>>

\* ORG 0 / ISZ CNT / BUN LOOP / HLT / LOOP, BUN 0 / CNT, DEC -1 / END
ISZ_PROGRAM ==
    <<<<"O", "R", "G", " ", "0">>,
      <<"I", "S", "Z", " ", "C", "N", "T">>,
      <<"B", "U", "N", " ", "L", "O", "O", "P">>,
      <<"H", "L", "T">>,
      <<"L", "O", "O", "P", ",", " ", "B", "U", "N", " ", "0">>,
      <<"C", "N", "T", ",", " ", "D", "E", "C", " ", "-", "1">>,
      <<"E", "N", "D">>>>

\* assembler_test.rs: INVALID_INSTRUCTION_PROGRAM, comments shortened
INVALID_INSTRUCTION_PROGRAM ==
    <<<<" ", " ", " ", "O", "R", "G", " ", "0", " ", " ", " ", " ", "/", "O", "r", "i", "g", "i", "n">>,
      <<" ", " ", " ", "L", "D", "A", " ", "A", " ", " ", " ", " ", "/", "V", "a", "l", "i", "d">>,
      <<" ", " ", " ", "B", "A", "D", "O", "P", " ", "B", " ", " ", "/", "I", "n", "v", "a", "l", "i", "d">>,
      <<" ", " ", " ", "H", "L", "T", " ", " ", " ", " ", " ", " ", "/", "V", "a", "l", "i", "d">>,
      <<"A", ",", " ", "D", "E", "C", " ", "5", " ", " ", " ", " ", "/", "D", "e", "c", "i", "m", "a", "l">>,
      <<"B", ",", " ", "D", "E", "C", " ", "1", "0", " ", " ", " ", "/", "D", "e", "c", "i", "m", "a", "l">>,
      <<" ", " ", " ", "E", "N", "D", " ", " ", " ", " ", " ", " ", "/", "E", "n", "d">>>>

\* One valid instruction of every family, literals in decimal digits
FAMILIES_PROGRAM ==
    <<<<"O", "R", "G", " ", "0">>,
      <<"C", "L", "A">>,
      <<"I", "O", "N">>,
      <<"I", "S", "Z", " ", "N">>,
      <<"A", "D", "D", " ", "N", " ", "i">>,
      <<"S", "T", "A", " ", "N">>,
      <<"B", "S", "A", " ", "F">>,
      <<"H", "L", "T">>,
      <<"N", ",", " ", "H", "E", "X", " ", "1", "0">>,
      <<"F", ",", " ", "D", "E", "C", " ", "7">>,
      <<"B", "U", "N", " ", "F", " ", "i">>,
      <<"E", "N", "D">>>>

\* No source at all
EMPTY_PROGRAM == <<>>

\* The last source is DEC 20479: the word 4FFF at address 0, which runs as
\* BUN FFF, so that the next fetch increments PC from its largest value
Programs ==
    {BASIC_ADDITION_PROGRAM, HALT_PROGRAM, INDIRECT_PROGRAM, ISZ_PROGRAM,
     INVALID_INSTRUCTION_PROGRAM, FAMILIES_PROGRAM, EMPTY_PROGRAM,
     <<<<"D", "E", "C", " ", "2", "0", "4", "7", "9">>>>}

(***************************************************************************)
(* Storage (storage.rs) and the Machine facade (machine.rs).               *)
(***************************************************************************)
\* Machine::is_halted
is_halted == reg.s = 0

\* Machine::is_primed
is_primed == FALSE

\* Machine::get_state
get_state ==
    [program_counter |-> reg.pc,
     accumulator |-> reg.ac,
     instruction_register |-> reg.ir,
     address_register |-> reg.ar,
     data_register |-> reg.dr,
     extend_register |-> reg.e,
     sequence_counter |-> reg.sc,
     is_halted |-> reg.s = 0,
     is_running |-> ~is_halted,
     memory_snapshot |-> [a \in 0..31 |-> memory[a]]]

\* Machine::new
Init ==
    /\ reg = Registers_new
    /\ memory = [address \in 0..(MemSize - 1) |-> 0]
    /\ source_program = <<>>
    /\ assembled_program = <<>>
    /\ address_symbol_table = <<>>
    /\ messages = <<>>
    /\ step = "new"
    /\ overflow_checks \in BOOLEAN
    /\ panicked = FALSE
    /\ primes = 0
    /\ ticks = 0

\* Machine::prime: Storage::load_program, assembler::assemble, Machine::reset
prime(program) ==
    /\ ~panicked
    /\ primes < MaxPrimes
    /\ \E assembled \in {assemble(program, <<>>, <<Info("Program loaded successfully", <<>>)>>)} :
          /\ source_program' = program
          /\ assembled_program' = assembled.listing
          /\ address_symbol_table' = assembled.table
          /\ IF assembled.panic
             THEN /\ panicked' = TRUE
                  /\ messages' = assembled.messages
                  /\ UNCHANGED <<reg, memory>>
             ELSE /\ panicked' = FALSE
                  /\ reg' = CPU_reset_registers(reg)
                  /\ memory' = load_program_into_memory(memory, assembled.listing)
                  /\ messages' = Append(assembled.messages, Info("Machine reset", <<>>))
    /\ step' = "prime"
    /\ primes' = primes + 1
    /\ ticks' = 0
    /\ UNCHANGED overflow_checks

\* Machine::tick, called with an empty Messages
tick ==
    /\ ~panicked
    /\ IF is_halted
       THEN /\ messages' = <<Error("Machine halted, please reset", <<>>)>>
            /\ step' = "halted"
            /\ UNCHANGED <<reg, memory, panicked, ticks>>
       ELSE /\ ticks < MaxTicks
            /\ \E cpu \in {CPU_tick([reg |-> reg, memory |-> memory, messages |-> <<>>,
                                     step |-> "none", panic |-> FALSE])} :
                  /\ panicked' = cpu.panic
                  /\ messages' = cpu.messages
                  /\ step' = cpu.step
                  /\ IF cpu.panic THEN UNCHANGED <<reg, memory>>
                     ELSE reg' = cpu.reg /\ memory' = cpu.memory
            /\ ticks' = ticks + 1
    /\ UNCHANGED <<source_program, assembled_program, address_symbol_table,
                   overflow_checks, primes>>

Next ==
    \/ \E program \in Programs : prime(program)
    \/ tick

Spec == Init /\ [][Next]_vars

(***************************************************************************)
(* Properties of the facade: prime and tick in any order.                  *)
(***************************************************************************)
\* The entry Machine::tick appends on a halted machine
HaltedError == Error("Machine halted, please reset", <<>>)

\* The last tick executed HLT
HltExecuted ==
    /\ step = "rri"
    /\ Len(messages) = 2
    /\ messages[2] = Error("Halting", <<>>)

\* The registers and memory of a newly constructed machine after prime(program)
FreshPrime(program) ==
    LET assembled == assemble(program, <<>>, <<>>)
    IN [reg |-> CPU_reset_registers(Registers_new),
        memory |-> load_program_into_memory([address \in 0..(MemSize - 1) |-> 0],
                                            assembled.listing)]

\* The words of the sources that start with ORG 0 and hold one valid
\* instruction per line up to END, encoded by the rules of the instruction
\* vocabulary: opcode | address | indirect bit, fixed opcodes, literals
ExpectedWords ==
    (BASIC_ADDITION_PROGRAM :> <<8196, 4101, 12294, 28673, 83, 65513, 0>>) @@
    (HALT_PROGRAM :> <<28673>>) @@
    (INDIRECT_PROGRAM :> <<40962, 28673, 3, 171>>) @@
    (FAMILIES_PROGRAM :> <<30720, 61568, 24583, 36871, 12295, 20488, 28673, 16, 7, 49160>>)

\* assembler_test.rs: BASIC_ADDITION_EXPECTED
BASIC_ADDITION_EXPECTED ==
    <<<<"2", "0", "0", "4">>, <<"1", "0", "0", "5">>, <<"3", "0", "0", "6">>, <<"7", "0", "0", "1">>, <<"0", "0", "5", "3">>, <<"F", "F", "E", "9">>, <<"0", "0", "0", "0">>>>

\* C1: every tick of a running machine takes one branch of the dispatch
\* (interrupt, fetch, decode, indirect, MRI, RRI or I/O) and a tick of a
\* halted machine is the halted no-op; no tick falls through all of them.
C1_EveryTickFires == step # "none"

\* C2: the tick that executes HLT leaves the machine halted; every tick of a
\* halted machine changes no register and no memory word and appends exactly
\* the Error "Machine halted, please reset"; only prime ends the halt.
C2_HaltedUntilPrime ==
    /\ [](HltExecuted => is_halted)
    /\ [][(is_halted /\ tick) =>
             /\ reg' = reg
             /\ memory' = memory
             /\ messages' = <<HaltedError>>
             /\ is_halted']_vars
    /\ [][(is_halted /\ ~is_halted') => step' = "prime"]_vars

\* A tick was rejected on a machine that HLT had halted
C2_Witness == step = "halted" /\ primes > 0 /\ messages = <<HaltedError>>

\* C3: after prime returns, PC = 0, S = 1, IR = 1 and SC = 0.
C3_PrimeResetsRegisters ==
    (step = "prime" /\ ~panicked) =>
        reg.pc = 0 /\ reg.s = 1 /\ reg.ir = 1 /\ reg.sc = 0

\* C4: a prime whose assembly reported an error leaves the machine halted and
\* not primed.
C4_FailedPrimeLeavesHalted ==
    (step = "prime" /\ ~panicked /\ has_errors(messages)) => (is_halted /\ ~is_primed)

\* C5: prime(P) gives the registers and memory that prime(P) gives on a newly
\* constructed machine.
C5_PrimeAsOnNewMachine ==
    (step = "prime" /\ ~panicked) =>
        /\ reg = FreshPrime(source_program).reg
        /\ memory = FreshPrime(source_program).memory

\* C6: is_primed() is false on a new machine and true after a prime without
\* errors, and is_running is primed and not halted.
C6_PrimedAndRunning ==
    /\ (step = "new") => ~is_primed
    /\ (step = "prime" /\ ~panicked /\ ~has_errors(messages)) => is_primed
    /\ get_state.is_running = (is_primed /\ ~is_halted)

\* C7: the program ORG 0 / HLT / END is halted after at most 4 ticks.
C7_HaltWithinFourTicks ==
    (source_program = HALT_PROGRAM /\ primes > 0 /\ ~panicked /\ ticks >= 4) => is_halted

\* C8: a source of ORG 0 and valid instruction lines assembles without error
\* into one non-empty entry per instruction line, entry k holding the word of
\* line k + 1; the basic-addition listing is 2004 1005 3006 7001 0053 FFE9 0000.
C8_OneWordPerLine ==
    (step = "prime" /\ ~panicked /\ source_program \in DOMAIN ExpectedWords) =>
        /\ ~has_errors(messages)
        /\ Len(assembled_program) = Len(ExpectedWords[source_program])
        /\ \A k \in 1..Len(assembled_program) :
               /\ assembled_program[k] # <<>>
               /\ k <= Len(ExpectedWords[source_program])
               /\ ParseHexU16(assembled_program[k]).val = ExpectedWords[source_program][k]
        /\ (source_program = BASIC_ADDITION_PROGRAM =>
               assembled_program = BASIC_ADDITION_EXPECTED)

\* C9: the basic-addition program run to halt ends with memory[6] = 60,
\* AC = 60, PC = 4 and S = 0.
C9_BasicAdditionResult ==
    (source_program = BASIC_ADDITION_PROGRAM /\ primes > 0 /\ ~panicked /\ is_halted) =>
        memory[6] = 60 /\ reg.ac = 60 /\ reg.pc = 4 /\ reg.s = 0

\* C10: the indirect-addressing program primes without error into
\* A001 7001 0003 00AB at addresses 0..3 and run to halt leaves AC = 0x00AB.
C10_IndirectProgram ==
    (source_program = INDIRECT_PROGRAM /\ primes > 0 /\ ~panicked) =>
        /\ step = "prime" =>
               /\ ~has_errors(messages)
               /\ memory[0] = 40961 /\ memory[1] = 28673
               /\ memory[2] = 3 /\ memory[3] = 171
        /\ is_halted => reg.ac = 171

\* C11: the ISZ program assembles without error; run on a new machine, no
\* tick fails, and when HLT has executed CNT (address 4) holds 0 and AC still
\* holds the 0 it was constructed with.
C11_IszProgram ==
    source_program = ISZ_PROGRAM =>
        /\ step = "prime" => ~has_errors(messages)
        /\ ~panicked
        /\ (HltExecuted /\ primes = 1) => (memory[4] = 0 /\ reg.ac = 0)

(***************************************************************************)
(* The assembler alone: Machine::prime on a newly constructed machine, for *)
(* every source of at most MaxLines lines drawn from SourceLines.          *)
(***************************************************************************)
\* Lines of a source given to the assembler.
MaxLines == 3

\* ORG 0, ORG 1A, ORG 1000; A, DEC -23; B, HEX 00AB; AND A; LDA A i;
\* BADOP B; HLT; END; HEX, DEC 5; a comment
SourceLines ==
    {<<"O", "R", "G", " ", "0">>,
     <<"O", "R", "G", " ", "1", "A">>,
     <<"O", "R", "G", " ", "1", "0", "0", "0">>,
     <<"A", ",", " ", "D", "E", "C", " ", "-", "2", "3">>,
     <<"B", ",", " ", "H", "E", "X", " ", "0", "0", "A", "B">>,
     <<"A", "N", "D", " ", "A">>,
     <<"L", "D", "A", " ", "A", " ", "i">>,
     <<"B", "A", "D", "O", "P", " ", "B">>,
     <<"H", "L", "T">>,
     <<"E", "N", "D">>,
     <<"H", "E", "X", ",", " ", "D", "E", "C", " ", "5">>,
     <<"/", " ", "n", "o", "t", "e">>}

\* Machine::prime called on a newly constructed machine
prime_new(program) == primes = 0 /\ prime(program)

\* Every source of at most MaxLines lines
SpecAssembler ==
    Init /\ [][\E n \in 0..MaxLines : \E program \in [1..n -> SourceLines] :
                   prime_new(program)]_vars

\* The entries of messages
entries == {messages[k] : k \in DOMAIN messages}

\* assemble has run pass two
pass_two_ran ==
    \E k \in DOMAIN messages : messages[k].text = "Set binary start location to {}"

\* pass_one has set the origin and entered its loop
origin_set ==
    \E k \in DOMAIN messages :
        messages[k].text \in {"ORG is at address {}",
                              "No ORG found on first line, setting to 0"}

\* The instruction token of line i (from 1) of a source
instruction_at(source, i) == parse_line_fast(source[i]).instruction

\* The lines (from 1) the loops of pass one and pass two visit: not empty,
\* up to the first END
lines_before_end(source) ==
    {i \in 1..Len(source) :
        /\ ~is_empty(parse_line_fast(source[i]))
        /\ \A j \in 1..(i - 1) :
              is_empty(parse_line_fast(source[j])) \/ instruction_at(source, j) # END}

\* The lines (from 1) pass two visits whose instruction is in no table
unknown_lines(source) ==
    {i \in lines_before_end(source) :
        /\ instruction_at(source, i) \notin PSEUDO_INSTRUCTIONS
        /\ instruction_at(source, i) \notin DOMAIN mri_table
        /\ instruction_at(source, i) \notin DOMAIN rri_table
        /\ instruction_at(source, i) \notin DOMAIN io_table}

\* C12: when translation was not stopped in pass one, every line whose
\* instruction token is in no table is reported by its own Error "Unknown
\* instruction" with the token (as many Errors with a token as lines with
\* it, so assembly went on after each), and has_errors() is true.
C12_UnknownInstructionReported ==
    (step = "prime" /\ ~panicked /\ pass_two_ran) =>
        \A i \in unknown_lines(source_program) :
            /\ has_errors(messages)
            /\ Cardinality({k \in DOMAIN messages :
                    messages[k] = Error("Unknown instruction \"{}\"",
                                        <<StrArg(instruction_at(source_program, i))>>)})
               = Cardinality({j \in unknown_lines(source_program) :
                    instruction_at(source_program, j) = instruction_at(source_program, i)})

\* Two unknown lines with a translated line between them
C12_Witness ==
    /\ step = "prime" /\ ~panicked /\ pass_two_ran
    /\ unknown_lines(source_program) = {1, 3}
    /\ Len(assembled_program) = 2

\* pass_one: line[..comma_location].trim() of line i (from 1)
label_at(source, i) == Trim(SubSeq(source[i], 1, FindChar(source[i], ",") - 1))

\* pass_one: the lines (from 1) whose label its loop examines
labelled_lines(source) ==
    {i \in lines_before_end(source) :
        instruction_at(source, i) # END /\ Contains(source[i], <<",">>)}

\* pass_one: the label of line i is a pseudo-instruction name or the label of
\* an earlier line
rejected_label(source, i) ==
    /\ i \in labelled_lines(source)
    /\ \/ label_at(source, i) \in PSEUDO_INSTRUCTIONS
       \/ \E j \in labelled_lines(source) : j < i /\ label_at(source, j) = label_at(source, i)

\* pass_one: line i is the first line with a rejected label
first_rejected(source, i) ==
    /\ rejected_label(source, i)
    /\ \A j \in 1..(i - 1) : ~rejected_label(source, j)

\* C13: when pass one reaches a line whose label is already in the symbol
\* table or is one of ORG, HEX, DEC, END, it reports the error with that
\* line, records neither this label nor anything of a later line, pass two
\* is not run and the assembled listing stays empty.
C13_RejectedLabelStops ==
    (step = "prime" /\ ~panicked /\ origin_set) =>
        \A i \in 1..Len(source_program) :
            first_rejected(source_program, i) =>
                /\ (IF label_at(source_program, i) \in PSEUDO_INSTRUCTIONS
                    THEN Error("Cannot use invalid label \"{}\"",
                               <<StrArg(label_at(source_program, i))>>)
                    ELSE Error("Label \"{}\" is already used",
                               <<StrArg(label_at(source_program, i))>>)) \in entries
                /\ Error(" <{}> {}", <<IntArg(i - 1), StrArg(Trim(source_program[i]))>>)
                       \in entries
                /\ DOMAIN address_symbol_table =
                       {ORG} \cup {label_at(source_program, j) :
                                      j \in {l \in labelled_lines(source_program) : l < i}}
                /\ ~pass_two_ran
                /\ assembled_program = <<>>

\* A label used a second time on the third line, after two accepted lines
C13_Witness ==
    /\ step = "prime" /\ ~panicked /\ origin_set
    /\ Len(source_program) = 3
    /\ first_rejected(source_program, 3)
    /\ label_at(source_program, 3) \notin PSEUDO_INSTRUCTIONS

\* C14: after pass one, two distinct labels of the symbol table have distinct
\* addresses, none of HEX, DEC, END is a key, and the key ORG holds the
\* origin pass one reported and is the label of no line.
C14_SymbolTable ==
    step = "prime" =>
        /\ \A a, b \in DOMAIN address_symbol_table \ {ORG} :
               a # b => address_symbol_table[a] # address_symbol_table[b]
        /\ DOMAIN address_symbol_table \cap {HEX, DEC, END} = {}
        /\ ORG \in DOMAIN address_symbol_table =>
               /\ \/ Debug("ORG is at address {}", <<AddrArg(address_symbol_table[ORG])>>)
                        \in entries
                  \/ /\ Debug("No ORG found on first line, setting to 0", <<>>) \in entries
                     /\ address_symbol_table[ORG] = ToU32(0)
               /\ \A i \in labelled_lines(source_program) :
                      label_at(source_program, i) = ORG =>
                          \E j \in 1..i : first_rejected(source_program, j)

\* Two labels recorded after an ORG line with an origin other than 0
C14_Witness ==
    /\ step = "prime" /\ ~panicked
    /\ Cardinality(DOMAIN address_symbol_table) = 3
    /\ address_symbol_table[ORG] # ToU32(0)

\* C15: every non-empty entry of the assembled listing is exactly four
\* uppercase hexadecimal characters.
C15_FourHexCharacters ==
    \A k \in DOMAIN assembled_program :
        assembled_program[k] # <<>> =>
            /\ Len(assembled_program[k]) = 4
            /\ \A c \in DOMAIN assembled_program[k] :
                  \E d \in DOMAIN HexUpper : assembled_program[k][c] = HexUpper[d]

\* pass_two: the listing entries it reports as converted from program line i
\* (from 0)
converted_texts(i) ==
    {e.args[3].str :
        e \in {m \in entries :
                  /\ m.text = converted(empty_instruction, 0, <<>>, 0).text
                  /\ m.args[2] = IntArg(i)}}

\* C16: the word emitted for a memory-reference line with a known label is
\* opcode | (label address & 0x0FFF) | (0x8000 if i is present, else 0).
C16_MriWord ==
    (step = "prime" /\ ~panicked /\ pass_two_ran) =>
        \A i \in lines_before_end(source_program) :
            (/\ instruction_at(source_program, i) \in DOMAIN mri_table
             /\ parse_line_fast(source_program[i]).operand # None
             /\ parse_line_fast(source_program[i]).operand[1]
                   \in DOMAIN address_symbol_table) =>
                {ParseHexU16(t).val : t \in converted_texts(i - 1)} =
                    {BitOr(BitOr(mri_table[instruction_at(source_program, i)],
                                 BitAnd(address_symbol_table[
                                     parse_line_fast(source_program[i]).operand[1]].lo, 4095)),
                           IF parse_line_fast(source_program[i]).indirect THEN 32768 ELSE 0)}

\* The digits of a DEC operand, without its sign
magnitude(operand) == IF operand[1] = "-" THEN Tail(operand) ELSE operand

\* A DEC operand that is a 16-bit signed decimal number, or a HEX operand of
\* one to four hexadecimal digits
literal_operand(instruction, operand) ==
    IF instruction = DEC
    THEN /\ Len(magnitude(operand)) \in 1..5
         /\ \A k \in DOMAIN magnitude(operand) : ToDigit(magnitude(operand)[k], 10) >= 0
         /\ DigitsValue(magnitude(operand), 10) <=
                (IF operand[1] = "-" THEN 32768 ELSE 32767)
    ELSE /\ Len(operand) \in 1..4
         /\ \A k \in DOMAIN operand : ToDigit(operand[k], 16) >= 0

\* DEC n: n as a 16-bit two's-complement word; HEX n: n read as hexadecimal;
\* both as four hexadecimal characters
literal_word(instruction, operand) ==
    IF instruction = DEC
    THEN FormatHex04(IF operand[1] = "-"
                     THEN (U16 - DigitsValue(magnitude(operand), 10)) % U16
                     ELSE DigitsValue(operand, 10))
    ELSE FormatHex04(DigitsValue(operand, 16))

\* C17: HEX n emits n read as hexadecimal, digits A to F included, and
\* DEC n emits n as a 16-bit two's-complement word, both as four hexadecimal
\* characters (DEC -23 gives FFE9, HEX 00AB gives 00AB).
C17_LiteralWords ==
    (step = "prime" /\ ~panicked /\ pass_two_ran) =>
        \A i \in lines_before_end(source_program) :
            (/\ instruction_at(source_program, i) \in {DEC, HEX}
             /\ parse_line_fast(source_program[i]).operand # None
             /\ literal_operand(instruction_at(source_program, i),
                                parse_line_fast(source_program[i]).operand[1])) =>
                converted_texts(i - 1) =
                    {literal_word(instruction_at(source_program, i),
                                  parse_line_fast(source_program[i]).operand[1])}

\* C18: when the first non-empty, non-comment line is ORG with a
\* hexadecimal operand of one to four digits (ORG 1A), pass one reports no
\* ORG error and the origin is the operand read as hexadecimal.
C18_OrgHexadecimal ==
    step = "prime" =>
        \A i \in 1..Len(source_program) :
            (/\ ~is_empty(parse_line_fast(source_program[i]))
             /\ \A j \in 1..(i - 1) : is_empty(parse_line_fast(source_program[j]))
             /\ instruction_at(source_program, i) = ORG
             /\ parse_line_fast(source_program[i]).operand # None
             /\ literal_operand(HEX, parse_line_fast(source_program[i]).operand[1])) =>
                /\ \A e \in entries :
                      e.level = "Error" =>
                          e.text \notin {"Invalid address for ORG instruction",
                                         "Missing address for ORG instruction",
                                         "Invalid syntax for ORG instruction"}
                /\ ORG \in DOMAIN address_symbol_table
                /\ address_symbol_table[ORG] =
                       ToU32(DigitsValue(parse_line_fast(source_program[i]).operand[1], 16))

\* C19: in every state reached by prime and tick, every register holds a
\* value below 2^width: AR, PC < 4096; SC < 8; E, S, R, IEN, FGI, FGO < 2;
\* INPR, OUTR < 256; DR, AC, IR, TR < 65536.
C19_RegistersWithinWidth ==
    /\ \A n \in {"ar", "pc"} : reg[n] \in 0..4095
    /\ reg.sc \in 0..7
    /\ \A n \in {"e", "s", "r", "ien", "fgi", "fgo"} : reg[n] \in 0..1
    /\ \A n \in {"inpr", "outr"} : reg[n] \in 0..255
    /\ \A n \in {"dr", "ac", "ir", "tr"} : reg[n] \in 0..65535

\* A fetch has incremented PC from 4095, its largest value, to 0
C19_Witness ==
    /\ step = "fetch"
    /\ reg.ar = 4095
    /\ reg.pc = 0
    /\ ~panicked

(***************************************************************************)
(* A register alone: Register::increment on one register of the register   *)
(* file that holds a value set beforehand.                                 *)
(***************************************************************************)
\* Registers::new, then set(value) on one register, for values near both
\* ends of every width, in either build
InitRegister ==
    /\ \E n \in DOMAIN bits :
           \E value \in {0, 1, 2, 3, 6, 7, 254, 255, 4094, 4095, 65534, 65535} :
               /\ value <= mask[n]
               /\ reg = [Registers_new EXCEPT ![n] = Register_set(mask[n], value)]
    /\ memory = [address \in 0..(MemSize - 1) |-> 0]
    /\ source_program = <<>>
    /\ assembled_program = <<>>
    /\ address_symbol_table = <<>>
    /\ messages = <<>>
    /\ step = "new"
    /\ overflow_checks \in BOOLEAN
    /\ panicked = FALSE
    /\ primes = 0
    /\ ticks = 0

\* Register::increment on register n
increment(n) ==
    /\ step = "new"
    /\ IF Register_increment(reg[n], mask[n]).overflow /\ overflow_checks
       THEN panicked' = TRUE /\ UNCHANGED reg
       ELSE /\ reg' = [reg EXCEPT ![n] = Register_increment(reg[n], mask[n]).value]
            /\ UNCHANGED panicked
    /\ step' = "increment"
    /\ UNCHANGED <<memory, source_program, assembled_program, address_symbol_table,
                   messages, overflow_checks, primes, ticks>>

SpecRegister == InitRegister /\ [][\E n \in DOMAIN bits : increment(n)]_vars

\* C20: increment on a register of width w holding v never fails and leaves
\* (v + 1) mod 2^w: 7 becomes 0 in 3 bits, 0xFFFF becomes 0 in 16 bits.
C20_IncrementWraps ==
    [][\A n \in DOMAIN bits :
          increment(n) => (~panicked' /\ reg'[n] = (reg[n] + 1) % (2^bits[n]))]_vars

(***************************************************************************)
(* The CPU on its own: a machine that has run before, which leaves AC, DR, *)
(* E and IEN behind (CPU::reset clears none of them; IEN is drawn equal to *)
(* E to keep the initial states few), and is primed with a                 *)
(* program of five words: an instruction at 0, CIL at 1, HLT at 2, a       *)
(* pointer at 3 and a data word at 4.                                      *)
(***************************************************************************)
\* The source line "DEC n" that assembles to the word: n is the word read as
\* a signed 16-bit number, written with a sign and five decimal digits
DEC_line(word) ==
    <<"D", "E", "C", " ">>
        \o (IF word < 32768 THEN <<>> ELSE <<"-">>)
        \o [k \in 1..5 |->
               HexUpper[(((IF word < 32768 THEN word ELSE U16 - word) \div 10^(5 - k)) % 10) + 1]]

\* Machine::prime of a five-word program on a machine that ran before.
\* The instruction at 0 is one of ADD 4, ADD 3 I, ISZ 4, CIR, HLT, BUN FFF,
\* STA 3 I, ION; AND 4, LDA 4, BSA 4, BSA FFF; 7801 (HLT and CLA), SPA, SNA,
\* INC; INP, OUT, SKI, SKO, IOF, F0C0 (ION and IOF).  The pointer is 4 or
\* F004.
InitCPU ==
    /\ \E instruction \in {4100, 36867, 24580, 28800, 28673, 20479, 45059, 61568,
                           4, 8196, 20484, 24575, 30721, 28688, 28680, 28704,
                           63488, 62464, 61952, 61696, 61504, 61632} :
       \E pointer \in {4, 61444} :
       \E data \in {0, 1, 65534, 65535} :
       \E program \in {<<DEC_line(instruction), DEC_line(28736), DEC_line(28673),
                         DEC_line(pointer), DEC_line(data)>>} :
       \E assembled \in {assemble(program, <<>>,
                                  <<Info("Program loaded successfully", <<>>)>>)} :
           /\ source_program = program
           /\ assembled_program = assembled.listing
           /\ address_symbol_table = assembled.table
           /\ messages = Append(assembled.messages, Info("Machine reset", <<>>))
           /\ memory = load_program_into_memory([address \in 0..(MemSize - 1) |-> 0],
                                                assembled.listing)
    /\ \E ac \in {0, 1, 32768, 65535} :
       \E e \in {0, 1} :
           reg = CPU_reset_registers([Registers_new EXCEPT !.ac = ac, !.dr = 43690, !.e = e,
                                                           !.ien = e])
    /\ step = "prime"
    /\ overflow_checks \in BOOLEAN
    /\ panicked = FALSE
    /\ primes = 1
    /\ ticks = 0

SpecCPU == InitCPU /\ [][tick]_vars

\* C21: Register::add of v to a register of width w holding x stores
\* (x + v) mod 2^w and returns 1 exactly when x + v exceeds the mask; the
\* tick that executes ADD at T5 therefore leaves AC = (AC + DR) mod 2^16 and
\* E = the carry out of bit 15.
C21_AddCarry ==
    [][(tick /\ ~is_halted /\ reg.sc = 5 /\ (reg.ir \div 4096) % 8 = 1)
          => /\ reg'.ac = (reg.ac + reg.dr) % U16
             /\ reg'.e = (reg.ac + reg.dr) \div U16
             /\ \A n \in DOMAIN bits :
                   Register_add(reg[n], mask[n], reg.dr) =
                       [value |-> (reg[n] + reg.dr) % (2^bits[n]),
                        carry |-> IF reg[n] + reg.dr > mask[n] THEN 1 ELSE 0]]_vars

\* ADD has added FFFF to an AC of 1: AC is 0 and the carry is in E
C21_Witness ==
    step = "mri" /\ reg.ir = 4100 /\ reg.sc = 0 /\ reg.dr = 65535 /\ reg.ac = 0 /\ reg.e = 1

\* C22: for every AC and every E, executing CIR and then CIL restores both:
\* when CIL executes right after the CIR at address 0, the AC and E it finds
\* are what CIR made of some AC and E, and it leaves that AC and that E;
\* shift_right and then shift_left also restore every AC with a single bit
\* set or a single bit clear.
C22_CirThenCil ==
    [][(tick /\ ~is_halted /\ reg.sc = 3 /\ reg.ir = 28736 /\ reg.pc = 2 /\ memory[0] = 28800)
          => \E ac \in {0, 1, 32768, 65535} :
             \E e \in {0, 1} :
                 /\ Register_shift_right(ac, mask.ac, e) = [value |-> reg.ac, out |-> reg.e]
                 /\ reg'.ac = ac
                 /\ reg'.e = e
                 /\ \A k \in 0..15 :
                    \A a \in {2^k, 65535 - 2^k} :
                        Register_shift_left(Register_shift_right(a, mask.ac, e).value, mask.ac,
                                            Register_shift_right(a, mask.ac, e).out)
                            = [value |-> a, out |-> e]]_vars

\* CIR has turned AC = 1, E = 0 into AC = 0, E = 1 and CIL has restored them
C22_Witness ==
    /\ step = "rri" /\ reg.ir = 28736 /\ reg.pc = 2 /\ memory[0] = 28800
    /\ reg.ac = 1 /\ reg.e = 0

\* Machine::reset, called with an empty Messages: CPU::reset sets PC, S and
\* IR and loads the listing into memory again
reset ==
    /\ ~panicked
    /\ reg' = CPU_reset_registers(reg)
    /\ memory' = load_program_into_memory(memory, assembled_program)
    /\ messages' = <<Info("Machine reset", <<>>)>>
    /\ step' = "reset"
    /\ UNCHANGED <<source_program, assembled_program, address_symbol_table,
                   overflow_checks, panicked, primes, ticks>>

\* The runs of SpecCPU, each followed by resets
SpecReset == InitCPU /\ [][(step # "reset" /\ tick) \/ reset]_vars

\* C23: applying the machine reset twice in a row yields the same registers
\* and memory as applying it once: a reset that follows a reset changes
\* neither.
C23_ResetIdempotent ==
    [][(reset /\ step = "reset") => (reg' = reg /\ memory' = memory)]_vars

\* A reset has acted in the middle of a run: ISZ has incremented the word at
\* address 4 and the reset has loaded it again from the listing
C23_Witness ==
    /\ step = "reset" /\ ticks = 7 /\ memory[0] = 24580
    /\ reg.pc = 0 /\ reg.ir = 1 /\ reg.dr = 2 /\ memory[4] = 1

\* C24: the tick that executes HLT sets S to 0 and SC to 0, changes no other
\* register and no memory word, and appends the Error "Halting", so that
\* has_errors() is true of the messages of that tick and a tick loop that
\* stops on it stops there.
C24_HltTick ==
    [][(tick /\ ~is_halted /\ reg.sc = 3 /\ reg.ir = 28673)
          => /\ reg' = [reg EXCEPT !.s = 0, !.sc = 0]
             /\ memory' = memory
             /\ messages'[Len(messages')] = Error("Halting", <<>>)
             /\ has_errors(messages')
             /\ error_count(messages') = 1]_vars

\* The HLT at address 2 has executed with FFFF in AC
C24_Witness ==
    HltExecuted /\ reg.s = 0 /\ reg.sc = 0 /\ reg.pc = 3 /\ reg.ir = 28673 /\ reg.ac = 65535

\* C25: after a prime without errors, memory[i] is the listing entry at i
\* read as hexadecimal for every i < 4096 whose entry is not empty; an empty
\* entry writes nothing (the word of a new machine stays 0) and makes the
\* loader raise no error; nothing beyond the listing and no entry at 4096 or
\* above changes memory.
C25_LoaderWrites ==
    (step = "prime" /\ ~panicked /\ ~has_errors(messages))
        => /\ \A i \in 0..(MemSize - 1) :
                 memory[i] = IF i < Len(assembled_program) /\ assembled_program[i + 1] # <<>>
                             THEN DigitsValue(assembled_program[i + 1], 16)
                             ELSE 0
           /\ ~has_errors(load_program_messages(assembled_program))

\* C26: for every labelled source line that emits a word, the address that
\* pass one records for the label is the listing index at which pass two
\* stores the word of that line, whatever the source: blank or comment lines
\* before the label, first line ORG or not.
C26_LabelAddressIsListingIndex ==
    (step = "prime" /\ ~panicked)
        => \A k \in DOMAIN messages :
              (/\ messages[k].text = converted(empty_instruction, 0, <<>>, 0).text
               /\ Contains(source_program[messages[k].args[2].int + 1], <<",">>))
                  => /\ label_at(source_program, messages[k].args[2].int + 1)
                            \in DOMAIN address_symbol_table
                     /\ address_symbol_table[label_at(source_program,
                                                      messages[k].args[2].int + 1)]
                            = ToU32(messages[k].args[4].int)

\* C27: a label on source line 0 of a program whose first line is not ORG
\* (origin 0) is rejected with an error diagnostic: the assembler does not
\* fail, reports an error and records no address 0 + 0 - 1 for the label.
C27_LabelOnFirstLineRejected ==
    (/\ step = "prime"
     /\ source_program # <<>>
     /\ Contains(source_program[1], <<",">>)
     /\ instruction_at(source_program, 1) # ORG)
        => /\ ~panicked
           /\ has_errors(messages)
           /\ label_at(source_program, 1) \notin DOMAIN address_symbol_table

\* C28: from SC = 0 with R = 0 and S = 1, three ticks leave IR = M[PC0],
\* PC = (PC0 + 1) mod 4096, AR = IR & 0FFF and SC = 3, with AC, DR, E and
\* memory unchanged.  Tick by tick: T0 copies PC to AR, T1 reads IR from
\* M[PC] and increments PC, T2 leaves in AR the low 12 bits of the IR that
\* was read at the address before PC; each adds 1 to SC and none fails.
C28_FetchDecode ==
    [][(tick /\ ~is_halted /\ reg.r = 0 /\ reg.sc < 3)
          => /\ ~panicked'
             /\ reg'.sc = reg.sc + 1
             /\ reg'.ac = reg.ac /\ reg'.dr = reg.dr /\ reg'.e = reg.e
             /\ memory' = memory
             /\ reg.sc = 0 => (reg'.ar = reg.pc /\ reg'.pc = reg.pc)
             /\ reg.sc = 1 => (reg'.ir = memory[reg.pc] /\ reg'.pc = (reg.pc + 1) % MemSize)
             /\ reg.sc = 2 => /\ reg'.pc = reg.pc
                              /\ reg'.ir = memory[(reg.pc + MemSize - 1) % MemSize]
                              /\ reg'.ar = reg'.ir % 4096]_vars

\* The instruction at 4095 has been fetched and decoded: PC has wrapped to 0
\* and AC still holds FFFF
C28_Witness ==
    /\ step = "decode" /\ reg.sc = 3 /\ reg.pc = 0 /\ reg.ir = memory[4095]
    /\ reg.ar = reg.ir % 4096 /\ reg.ac = 65535 /\ reg.dr = 43690 /\ reg.e = 1

\* C29: at T3 with an opcode other than 7, AR becomes the low 12 bits of
\* M[AR] when I = 1, and when I = 0 no register other than SC and no memory
\* word changes; in both cases SC becomes 4.
C29_FetchOperand ==
    [][(tick /\ ~is_halted /\ reg.sc = 3 /\ (reg.ir \div 4096) % 8 # 7)
          => /\ ~panicked'
             /\ memory' = memory
             /\ reg' = [reg EXCEPT !.sc = 4,
                                   !.ar = IF reg.ir \div 32768 = 1
                                          THEN memory[reg.ar] % 4096
                                          ELSE reg.ar]]_vars

\* ADD 3 I has read the pointer F004 at address 3 and left 004 in AR
C29_Witness ==
    /\ step = "indirect" /\ reg.ir = 36867 /\ reg.sc = 4
    /\ memory[3] = 61444 /\ reg.ar = 4

\* C30: ISZ on the effective address a leaves M[a] = (old M[a] + 1) mod 2^16
\* and increments PC once more exactly when that new word is 0 (the old one
\* was FFFF), then SC = 0; AC and E are unchanged.  None of its three ticks
\* fails; T4 and T5 change neither memory nor PC.
C30_Isz ==
    [][(tick /\ ~is_halted /\ reg.sc \in 4..6 /\ (reg.ir \div 4096) % 8 = 6)
          => /\ ~panicked'
             /\ reg'.ac = reg.ac /\ reg'.e = reg.e
             /\ reg.sc < 6 => (memory' = memory /\ reg'.pc = reg.pc)
             /\ reg.sc = 6 =>
                   /\ memory' = [memory EXCEPT ![reg.ar] = (memory[reg.ar] + 1) % U16]
                   /\ reg'.pc = IF memory[reg.ar] = 65535 THEN (reg.pc + 1) % MemSize
                                ELSE reg.pc
                   /\ reg'.sc = 0]_vars

\* C31: BSA on the effective address a stores the return address (PC after
\* the fetch) in M[a] and leaves PC = (a + 1) mod 4096 and SC = 0, for every
\* a, FFF included.  T4 writes PC to M[AR] and adds 1 to AR within 12 bits;
\* T5, which finds the return address at the address before AR, copies AR
\* to PC and clears SC.
C31_Bsa ==
    [][(tick /\ ~is_halted /\ reg.sc \in 4..5 /\ (reg.ir \div 4096) % 8 = 5)
          => /\ ~panicked'
             /\ reg.sc = 4 => /\ memory' = [memory EXCEPT ![reg.ar] = reg.pc]
                              /\ reg'.ar = (reg.ar + 1) % MemSize
                              /\ reg'.pc = reg.pc
                              /\ reg'.sc = 5
             /\ reg.sc = 5 => /\ memory[(reg.ar + MemSize - 1) % MemSize] = reg.pc
                              /\ memory' = memory
                              /\ reg'.pc = reg.ar
                              /\ reg'.sc = 0]_vars

\* BSA FFF at address 0 has stored the return address 1 at FFF and left PC = 0
C31_Witness ==
    /\ step = "mri" /\ reg.ir = 24575 /\ reg.sc = 0 /\ reg.pc = 0 /\ reg.ar = 0
    /\ memory[4095] = 1

\* C32: at T3 with opcode 7, the operation executed is the one mapped to the
\* lowest set bit among IR bits 0 to 11 and only that one, and the tick ends
\* with SC = 0: the tick does not fail, and it leaves the registers, memory
\* and messages that it leaves when that bit alone is set in IR; IR = 7801
\* halts and does not clear AC.
C32_LowestSetBit ==
    [][(tick /\ ~is_halted /\ reg.sc = 3 /\ (reg.ir \div 4096) % 8 = 7 /\ reg.ir % 4096 # 0)
          => /\ ~panicked'
             /\ reg'.sc = 0
             /\ reg.ir = 30721 => (reg'.s = 0 /\ reg'.ac = reg.ac)
             /\ \A k \in 0..11 :
                   ((reg.ir \div 2^k) % 2 = 1 /\ reg.ir % 2^k = 0)
                       => \E single \in {CPU_tick([reg |-> [reg EXCEPT !.ir = (reg.ir \div 4096) * 4096 + 2^k],
                                                   memory |-> memory, messages |-> <<>>,
                                                   step |-> "none", panic |-> FALSE])} :
                              /\ reg' = [single.reg EXCEPT !.ir = reg.ir]
                              /\ memory' = single.memory
                              /\ messages' = single.messages]_vars

\* C33: SNA increments PC exactly when AC bit 15 is 1 and SPA exactly when
\* it is 0, so for every AC exactly one of the two skips; neither changes AC
\* or E.
C33_SpaSna ==
    [][(tick /\ ~is_halted /\ reg.sc = 3 /\ reg.ir \in {28688, 28680})
          => /\ ~panicked'
             /\ reg'.pc = IF (reg.ac \div 32768 = 1) <=> (reg.ir = 28680)
                          THEN (reg.pc + 1) % MemSize
                          ELSE reg.pc
             /\ reg'.ac = reg.ac
             /\ reg'.e = reg.e]_vars

\* SNA at address 0 has skipped with AC = 8000 and E = 1
C33_Witness ==
    step = "rri" /\ reg.ir = 28680 /\ reg.pc = 2 /\ reg.ac = 32768 /\ reg.e = 1 /\ reg.sc = 0

(***************************************************************************)
(* Interrupts.  Nothing in the program raises R: an external caller that   *)
(* holds the CPU sets it between two ticks (CPU.reg is public).            *)
(***************************************************************************)
\* The ticks a run is followed for after an interrupt is raised: enough to
\* end the instruction under way and the three ticks of the interrupt cycle
MaxInterruptTicks == 7

\* The external caller: reg.r.set(1).  A run has one interrupt.
raise_interrupt ==
    /\ ~panicked
    /\ reg.r = 0
    /\ ticks <= MaxTicks - MaxInterruptTicks
    /\ reg' = [reg EXCEPT !.r = Register_set(mask.r, 1)]
    /\ ticks' = MaxTicks - MaxInterruptTicks
    /\ UNCHANGED <<memory, source_program, assembled_program, address_symbol_table,
                   messages, step, overflow_checks, panicked, primes>>

\* The runs of SpecCPU that start with AC = FFFF and E = 1, with interrupts
InitInterrupt == InitCPU /\ reg.ac = 65535 /\ reg.e = 1

\* tick, and one raise of R by an external caller
SpecInterrupt == InitInterrupt /\ [][tick \/ raise_interrupt]_vars

\* C34: with R = 1 at SC = 0, three ticks perform RT0, RT1 and RT2 in order
\* and leave memory[0] = the PC before the cycle, PC = 1, IEN = 0, R = 0 and
\* SC = 0, with IR, AC, DR, E and every other memory word unchanged.  The
\* ticks of such a cycle are the tick at SC = 0 and the ticks that follow an
\* interrupt tick with the AR = 0 that RT0 leaves: RT0 clears AR and copies PC to TR, RT1 writes that PC to
\* memory[0] and clears PC, RT2 finds the saved PC in memory[0] and sets
\* PC = 1 and clears IEN, R and SC.
C34_InterruptCycle ==
    [][(tick /\ ~is_halted /\ reg.r = 1 /\ reg.sc < 3
           /\ (reg.sc = 0 \/ (step = "interrupt" /\ reg.ar = 0)))
          => /\ ~panicked'
             /\ step' = "interrupt"
             /\ reg'.ir = reg.ir /\ reg'.ac = reg.ac /\ reg'.dr = reg.dr /\ reg'.e = reg.e
             /\ reg.sc = 0 => /\ reg'.ar = 0 /\ reg'.tr = reg.pc /\ reg'.pc = reg.pc
                              /\ reg'.sc = 1 /\ reg'.r = 1
                              /\ memory' = memory
             /\ reg.sc = 1 => /\ reg.tr = reg.pc
                              /\ memory' = [memory EXCEPT ![0] = reg.pc]
                              /\ reg'.pc = 0 /\ reg'.tr = reg.tr
                              /\ reg'.sc = 2 /\ reg'.r = 1
             /\ reg.sc = 2 => /\ memory[0] = reg.tr
                              /\ memory' = memory
                              /\ reg'.pc = 1 /\ reg'.ien = 0 /\ reg'.r = 0 /\ reg'.sc = 0]_vars

\* An interrupt raised after ION and CIL, with PC = 2 and IEN = 1, has run its
\* cycle: memory[0] holds 2, PC is 1 and IEN is 0
C34_Witness ==
    /\ step = "interrupt" /\ reg.sc = 0 /\ reg.r = 0 /\ reg.pc = 1 /\ reg.ien = 0
    /\ memory[0] = 2 /\ reg.tr = 2 /\ reg.ir = 28736 /\ source_program[1] = DEC_line(61568)

\* C35: when an external caller raises R between two ticks at any point of
\* the instruction cycle, SC = 1 or 2 in the middle of a fetch included, the
\* interrupt cycle runs RT0, RT1, RT2 from the start: the first interrupt
\* tick is RT0, which clears AR and saves PC in TR, so that when R is
\* cleared memory[0] holds the interrupted PC, and no interrupt tick writes
\* another memory word.
C35_InterruptFromAnyPoint ==
    [][(tick /\ ~is_halted /\ reg.r = 1 /\ reg.sc < 3)
          => /\ step # "interrupt" => /\ reg'.ar = 0 /\ reg'.tr = reg.pc /\ reg'.r = 1
                                      /\ memory' = memory
             /\ \A address \in 1..(MemSize - 1) : memory'[address] = memory[address]
             /\ reg'.r = 0 => (step = "interrupt" /\ memory'[0] = reg.tr)]_vars

\* C36: ION sets IEN to 1 and IOF sets IEN to 0; INP, OUT, SKI and SKO change
\* no register other than SC, which they set to 0, and no memory word, and
\* none of the six emits an Error.
C36_InputOutput ==
    [][(tick /\ ~is_halted /\ reg.sc = 3
          /\ reg.ir \in {61568, 61504, 63488, 62464, 61952, 61696})
          => /\ ~panicked'
             /\ memory' = memory
             /\ ~has_errors(messages')
             /\ reg' = [reg EXCEPT !.sc = 0,
                                   !.ien = IF reg.ir = 61568 THEN 1
                                           ELSE IF reg.ir = 61504 THEN 0
                                           ELSE @]]_vars

\* IOF has cleared an IEN that was 1
C36_Witness ==
    step = "io" /\ reg.ir = 61504 /\ reg.sc = 0 /\ reg.ien = 0 /\ reg.e = 1 /\ ticks = 4

\* C37: in every state reachable by prime and tick, SC <= 6; SC >= 4 only
\* while IR holds a memory-reference opcode (not 7); SC >= 5 only for AND,
\* ADD, LDA, BSA and ISZ; SC = 6 only for ISZ.
C37_SequenceCounter ==
    /\ reg.sc <= 6
    /\ reg.sc >= 4 => (reg.ir \div 4096) % 8 # 7
    /\ reg.sc >= 5 => (reg.ir \div 4096) % 8 \in {0, 1, 2, 5, 6}
    /\ reg.sc = 6 => (reg.ir \div 4096) % 8 = 6

\* C38: starting from SC = 0 with R = 0 and S = 1, SC next returns to 0 after
\* exactly 4 ticks for a register-reference or input/output instruction, 5
\* for STA and BUN, 6 for AND, ADD, LDA and BSA, and 7 for ISZ, so every
\* instruction completes within 7 ticks, and IR changes only at fetch T1.
\* SC counts the ticks since the instruction began: no tick fails, the tick
\* at SC = 3, 4, 5 or 6 of an instruction of the class that ends there
\* clears SC, and every other tick adds 1 to it.
C38_TicksPerInstruction ==
    [][(tick /\ ~is_halted /\ reg.r = 0)
          => /\ ~panicked'
             /\ reg'.sc = IF \/ reg.sc = 3 /\ (reg.ir \div 4096) % 8 = 7
                             \/ reg.sc = 4 /\ (reg.ir \div 4096) % 8 \in {3, 4}
                             \/ reg.sc = 5 /\ (reg.ir \div 4096) % 8 \in {0, 1, 2, 5}
                             \/ reg.sc = 6 /\ (reg.ir \div 4096) % 8 = 6
                          THEN 0
                          ELSE reg.sc + 1
             /\ reg'.ir # reg.ir => reg.sc = 1]_vars

\* C39: a single tick changes at most one memory word, always the word at
\* the address held in AR before the tick, and only in STA T4, BSA T4,
\* ISZ T6 or interrupt RT1; every other micro-step leaves all 4096 words
\* unchanged.
C39_MemoryFrame ==
    [][tick
          => /\ memory' = [memory EXCEPT ![reg.ar] = memory'[reg.ar]]
             /\ memory' # memory
                    => \/ reg.sc = 1 /\ reg.r = 1
                       \/ reg.sc = 4 /\ (reg.ir \div 4096) % 8 \in {3, 5}
                       \/ reg.sc = 6 /\ (reg.ir \div 4096) % 8 = 6]_vars

\* RT1 has just stored the interrupted PC over the instruction word at 0
C39_Witness ==
    /\ step = "interrupt" /\ reg.sc = 2 /\ reg.r = 1 /\ reg.ar = 0 /\ reg.pc = 0
    /\ memory[0] = reg.tr /\ memory[0] \in 1..3
    /\ ParseHexU16(assembled_program[1]).val # memory[0]

\* C40: over every sequence of prime and tick calls on the Machine facade,
\* R, TR, INPR, OUTR, FGI and FGO stay 0, so the interrupt branch of the
\* dispatch is never taken; S goes from 1 to 0 only in the tick that
\* executes HLT and from 0 to 1 only in prime.
C40_FacadeFlags ==
    /\ [](/\ reg.r = 0 /\ reg.tr = 0 /\ reg.inpr = 0 /\ reg.outr = 0
          /\ reg.fgi = 0 /\ reg.fgo = 0
          /\ step # "interrupt")
    /\ [][/\ (reg.s = 1 /\ reg'.s = 0)
                => /\ tick
                   /\ reg.sc = 3 /\ reg.ir \div 4096 = 7
                   /\ get_instruction_bit([reg |-> reg]) = 0
                   /\ HltExecuted'
          /\ (reg.s = 0 /\ reg'.s = 1)
                => \E program \in Programs : prime(program)]_vars

\* HLT has halted a primed machine whose six flags and registers are 0
C40_Witness ==
    /\ HltExecuted /\ reg.s = 0 /\ primes >= 1 /\ ticks >= 4
    /\ reg.r = 0 /\ reg.tr = 0 /\ reg.inpr = 0 /\ reg.outr = 0
    /\ reg.fgi = 0 /\ reg.fgo = 0

====
